---- MODULE Spec2Model ----
(***************************************************************************)
(* Model of the Coup engine of rlcard (rlcard/games/coup/coup.py and its   *)
(* dealer, player and constants modules).                                  *)
(*                                                                         *)
(* One call of Coup.play_action is one step.  The resolver objects of the  *)
(* source (Turn, Action, Challenge, Block, Reveal) are records; a handler  *)
(* is an operator from a call context g to the set of contexts the call    *)
(* can end in.  The context holds the live data of the game (players,      *)
(* deck), the Turn object the call was dispatched to (turn), what          *)
(* game.state has been replaced by during the call (next) and the          *)
(* exception raised, if any (err).  The deck is a bag: every shuffle goes  *)
(* through the injected generator, so a deal may yield any card in it.     *)
(***************************************************************************)
EXTENDS Integers, Sequences, FiniteSets, TLC

\* ------------------------------------------------------------------------
\* Bounds of the model
\* ------------------------------------------------------------------------
\* Number of accepted play calls explored in one behaviour
MaxPlays == 6

\* the largest number of accepted play_action calls followed in one turn
\* (4 * NumPlayers + 2, one more than any turn is said to take)
MaxTurnPlays == 14

\* ------------------------------------------------------------------------
\* constants.py
\* ------------------------------------------------------------------------
DUKE == "duke"
CAPTAIN == "captain"
ASSASSIN == "assassin"
CONTESSA == "contessa"
AMBASSADOR == "ambassador"

\* sorted([...]): the roles in lexicographic order
ALL_ROLES == <<AMBASSADOR, ASSASSIN, CAPTAIN, CONTESSA, DUKE>>
BLOCKING_ROLES == <<AMBASSADOR, CAPTAIN, CONTESSA, DUKE>>

INCOME == "income"
FOREIGN_AID == "foreign_aid"
STEAL == "steal"
TAX == "tax"
ASSASSINATE == "assassinate"
EXCHANGE == "exchange"
COUP == "coup"

BLOCK == "block"
PASS == "pass"
CHALLENGE == "challenge"
REVEAL == "reveal"
KEEP == "keep"

UNTARGETED_ACTIONS == <<EXCHANGE, FOREIGN_AID, INCOME, TAX>>
TARGETED_ACTIONS == <<ASSASSINATE, COUP, STEAL>>

\* ACTION_COSTS.get(name, 0)
ACTION_COSTS(name) ==
    IF name = ASSASSINATE THEN 3 ELSE IF name = COUP THEN 7 ELSE 0

START_OF_TURN == "start_of_turn"
AWAITING_CHALLENGE == "awaiting_challenge"
AWAITING_BLOCK == "awaiting_block"
AWAITING_BLOCK_CHALLENGE == "awaiting_block_challenge"
CHOOSE_NEW_ROLES == "choose_new_roles"
GAME_OVER == "game_over"
PROVE_CHALLENGE == "prove_challenge"
CORRECT_CHALLENGE == "correct_challenge"
INCORRECT_CHALLENGE == "incorrect_challenge"
DIRECT_ATTACK == "direct_attack"

\* ------------------------------------------------------------------------
\* Python values
\* ------------------------------------------------------------------------
\* None, for a reference to an object
None == [kind |-> "None"]
\* None, for a player id (target_player, blocking_player_id)
NoPlayer == 0 - 1
\* no exception raised
NoErr == "ok"

Roles == {ALL_ROLES[i] : i \in DOMAIN ALL_ROLES}
SeqToSet(s) == {s[i] : i \in DOMAIN s}

\* position of a role in sorted order (string comparison of role names)
RoleRank(r) == CHOOSE i \in DOMAIN ALL_ROLES : ALL_ROLES[i] = r

\* x in list
Contains(s, x) == \E i \in DOMAIN s : s[i] = x

\* list.remove(x): drops the first occurrence of x
Remove(s, x) ==
    LET i == CHOOSE k \in DOMAIN s : s[k] = x /\ \A j \in 1..(k - 1) : s[j] # x
    IN  SubSeq(s, 1, i - 1) \o SubSeq(s, i + 1, Len(s))

\* sorted(list of roles)
RECURSIVE SortedRoles(_)
SortedRoles(s) ==
    IF s = <<>> THEN <<>>
    ELSE LET m == CHOOSE r \in SeqToSet(s) :
                      \A q \in SeqToSet(s) : RoleRank(r) <= RoleRank(q)
         IN  <<m>> \o SortedRoles(Remove(s, m))

\* min(a, b)
Min(a, b) == IF a <= b THEN a ELSE b

\* number of cards in a deck
DeckSize(d) == d[AMBASSADOR] + d[ASSASSIN] + d[CAPTAIN] + d[CONTESSA] + d[DUKE]

\* an action string: 'income' is Act0("income"), 'coup:2' is ActT("coup", 2),
\* 'reveal:duke' is ActR("reveal", <<"duke">>), 'keep:a,b' is
\* ActR("keep", <<"a", "b">>) with the roles in the order written
Act0(name) == [name |-> name, target |-> NoPlayer, roles |-> <<>>]
ActT(name, t) == [name |-> name, target |-> t, roles |-> <<>>]
ActR(name, rs) == [name |-> name, target |-> NoPlayer, roles |-> rs]

\* block(role), reveal(role), keep(roles) of constants.py
block(role) == ActR(BLOCK, <<role>>)
reveal(role) == ActR(REVEAL, <<role>>)
keep(roles) == ActR(KEEP, SortedRoles(roles))
\* keep_decode(action): the roles in the order written
keep_decode(a) == a.roles

\* ------------------------------------------------------------------------
\* Coup: the game object
\* ------------------------------------------------------------------------
\* Coup.__init__: num_players
NumPlayers == 3
Players == 0..(NumPlayers - 1)

VARIABLES
    players,    \* Coup.players: per seat cash, hidden, revealed, trace
    deck,       \* CoupDealer.deck, as a bag: role -> number of copies
    state,      \* Coup.state: the current Turn, or GameOver
    result,     \* how the last play_action call ended: NoErr or the exception
    plays       \* number of accepted play_action calls so far

vars == <<players, deck, state, result, plays>>

\* CoupPlayer.__init__, with the hand dealt by Coup.init_game
Player(cash, hidden, revealed, trace) ==
    [cash |-> cash, hidden |-> hidden, revealed |-> revealed, trace |-> trace]

\* Turn.__init__
Turn(player_id) == [kind |-> "Turn", player_id |-> player_id, action |-> None]

\* GameOver.__init__
GameOver(winning_player) ==
    [kind |-> "GameOver", winning_player |-> winning_player]

\* Reveal.__init__
Reveal(player_id, phase_name) ==
    [kind |-> "Reveal", player_id |-> player_id, phase_name |-> phase_name]

\* Action.__init__
Action(name, player_id, target_player) ==
    [kind |-> "Action", name |-> name, player_id |-> player_id,
     target_player |-> target_player, cost |-> ACTION_COSTS(name),
     challenge |-> None, block |-> None, final_action |-> None,
     drawn_roles |-> <<>>]

\* The context of one play_action call.  rng is the state of the injected
\* generator np_random when the call starts: None when it is not known, so
\* that a shuffle or a choice may come out in any way
Ctx(ps, d, st) ==
    [players |-> ps, deck |-> d, turn |-> st, next |-> None, err |-> NoErr,
     rng |-> None]

\* A numpy RandomState created from the given seed, after n uses (shuffles,
\* choices, and cards taken off the deck as the last shuffle left it)
RandomState(seed, n) == [kind |-> "RandomState", seed |-> seed, n |-> n]

\* the context g with the generator in state rng
Seeded(g, rng) == [g EXCEPT !.rng = rng]

\* np_random.choice(k): the number in 0..k-1 the generator yields in its
\* present state (a fixed function of the seed and the draws made so far)
np_random_choice(rng, k) == ((rng.seed + 1) * (rng.n + 1) + rng.n) % k

\* the generator after one more use
np_random_advance(g) ==
    IF g.rng = None THEN g ELSE [g EXCEPT !.rng.n = @ + 1]

Raise(g, e) == IF g.err = NoErr THEN [g EXCEPT !.err = e] ELSE g

\* F applied to every context of S in which no exception is pending
Then(S, F(_)) == UNION {IF g.err = NoErr THEN F(g) ELSE {g} : g \in S}

\* Coup.is_alive
is_alive(g, player_id) == Len(g.players[player_id].hidden) > 0

\* Coup.is_game_over
is_game_over(g) == g.next.kind = "GameOver"

\* Coup.player_has_role
player_has_role(g, player_id, role) == Contains(g.players[player_id].hidden, role)

\* Coup.get_influence
get_influence(g, player_id) == g.players[player_id].hidden

\* Coup.can_afford
can_afford(g, player_id, price) == g.players[player_id].cash >= price

\* Coup.get_next_player: the first living seat after player_id in cyclic
\* order (player_id itself when it is the only one alive); NoPlayer stands
\* for the RuntimeError raised when nobody is alive
get_next_player(g, player_id) ==
    LET steps == {k \in 1..NumPlayers : is_alive(g, (player_id + k) % NumPlayers)}
    IN  IF steps = {} THEN NoPlayer
        ELSE (player_id + (CHOOSE k \in steps : \A j \in steps : k <= j)) % NumPlayers

\* Coup.add_cash
add_cash(g, player_id, cash) ==
    [g EXCEPT !.players[player_id].cash = @ + cash]

\* deduct_cash without the clamp min(cash, balance)
deduct_cash_unclamped(g, player_id, cash) ==
    [g |-> [g EXCEPT !.players[player_id].cash = @ - cash], cash |-> cash]

\* Coup.deduct_cash: the context after the call and the value returned
deduct_cash(g, player_id, cash) ==
    LET taken == Min(cash, g.players[player_id].cash)
    IN  [g |-> [g EXCEPT !.players[player_id].cash = @ - taken], cash |-> taken]

\* Coup.trace_claim, trace_reveal, trace_lost_challenge, trace_exchange
trace_claim(g, player_id, role) ==
    [g EXCEPT !.players[player_id].trace = Append(@, <<"claim", role>>)]
trace_reveal(g, player_id, role) ==
    [g EXCEPT !.players[player_id].trace = Append(@, <<"reveal", role>>)]
trace_lost_challenge(g, player_id, role) ==
    [g EXCEPT !.players[player_id].trace = Append(@, <<"lost_challenge", role>>)]
trace_exchange(g, player_id) ==
    [g EXCEPT !.players[player_id].trace = Append(@, <<"exchange", "None">>)]

\* end_turn passing over the first living seat after the actor
end_turn_skipping_one(g) ==
    IF is_game_over(g) THEN g
    ELSE LET cur == IF g.next = None THEN g.turn.player_id ELSE g.next.player_id
             player_id == get_next_player(g, get_next_player(g, cur))
         IN  IF player_id = NoPlayer
             THEN Raise(g, "RuntimeError: only one player left alive")
             ELSE [g EXCEPT !.next = Turn(player_id)]

\* Coup.end_turn
end_turn(g) ==
    IF is_game_over(g) THEN g
    ELSE LET cur == IF g.next = None THEN g.turn.player_id ELSE g.next.player_id
             player_id == get_next_player(g, cur)
         IN  IF player_id = NoPlayer
             THEN Raise(g, "RuntimeError: only one player left alive")
             ELSE [g EXCEPT !.next = Turn(player_id)]

\* reveal_role counting the living players before the card is removed
reveal_role_stale_count(g, player_id, role) ==
    IF ~Contains(g.players[player_id].hidden, role)
    THEN Raise(g, "ValueError: list.remove(x): x not in list")
    ELSE LET g1 == [g EXCEPT !.players[player_id].hidden = Remove(@, role),
                             !.players[player_id].revealed = Append(@, role)]
             live_players == {p \in Players : is_alive(g, p)}
         IN  IF Cardinality(live_players) = 1
             THEN [g1 EXCEPT !.next = GameOver(CHOOSE p \in live_players : TRUE)]
             ELSE g1

\* Coup.reveal_role
reveal_role(g, player_id, role) ==
    IF ~Contains(g.players[player_id].hidden, role)
    THEN Raise(g, "ValueError: list.remove(x): x not in list")
    ELSE LET g1 == [g EXCEPT !.players[player_id].hidden = Remove(@, role),
                             !.players[player_id].revealed = Append(@, role)]
             live_players == {p \in Players : is_alive(g1, p)}
         IN  IF Cardinality(live_players) = 1
             THEN [g1 EXCEPT !.next = GameOver(CHOOSE p \in live_players : TRUE)]
             ELSE g1

\* the card at position i (from 0) of a deck laid out in sorted order
RECURSIVE NthCard(_, _, _)
NthCard(d, i, k) ==
    IF k >= Len(ALL_ROLES) \/ i < d[ALL_ROLES[k]] THEN ALL_ROLES[k]
    ELSE NthCard(d, i - d[ALL_ROLES[k]], k + 1)

\* CoupDealer.shuffle, then the card on top: any card of the deck when the
\* state of the generator is not known, else the one the generator puts there
top_cards(g) ==
    IF g.rng = None THEN {r \in Roles : g.deck[r] > 0}
    ELSE {NthCard(g.deck, np_random_choice(g.rng, DeckSize(g.deck)), 1)}

\* CoupDealer.deal_cards(1)
deal_one(g) ==
    IF DeckSize(g.deck) = 0
    THEN {[g |-> Raise(g, "IndexError: pop from empty list"), card |-> "None"]}
    ELSE {[g |-> np_random_advance([g EXCEPT !.deck[c] = @ - 1]), card |-> c] :
             c \in top_cards(g)}

\* replace_cards losing the cards handed back
replace_cards_dropped(g, cards) == np_random_advance(g)

\* CoupDealer.replace_cards: the cards go back and the deck is shuffled
RECURSIVE replace_cards(_, _)
replace_cards(g, cards) ==
    IF cards = <<>> THEN np_random_advance(g)
    ELSE replace_cards([g EXCEPT !.deck[Head(cards)] = @ + 1], Tail(cards))

\* replace_role dealing the new card without returning the shown one
replace_role_not_returned(g, player_id, role) ==
    IF ~Contains(g.players[player_id].hidden, role)
    THEN {Raise(g, "ValueError: list.remove(x): x not in list")}
    ELSE LET g1 == [g EXCEPT !.players[player_id].hidden = Remove(@, role)]
         IN  {IF d.g.err = NoErr
              THEN [d.g EXCEPT !.players[player_id].hidden = Append(@, d.card)]
              ELSE d.g : d \in deal_one(g1)}

\* replace_role dealing the new card before the shown one goes back
replace_role_dealt_first(g, player_id, role) ==
    IF ~Contains(g.players[player_id].hidden, role)
    THEN {Raise(g, "ValueError: list.remove(x): x not in list")}
    ELSE LET g1 == [g EXCEPT !.players[player_id].hidden = Remove(@, role)]
         IN  {IF d.g.err = NoErr
              THEN replace_cards([d.g EXCEPT !.players[player_id].hidden =
                                                 Append(@, d.card)], <<role>>)
              ELSE d.g : d \in deal_one(g1)}

\* Coup.replace_role
replace_role(g, player_id, role) ==
    IF ~Contains(g.players[player_id].hidden, role)
    THEN {Raise(g, "ValueError: list.remove(x): x not in list")}
    ELSE LET g1 == [g EXCEPT !.players[player_id].hidden = Remove(@, role)]
             g2 == replace_cards(g1, <<role>>)
         IN  {IF d.g.err = NoErr
              THEN [d.g EXCEPT !.players[player_id].hidden = Append(@, d.card)]
              ELSE d.g : d \in deal_one(g2)}

\* Coup.replace_all_roles
replace_all_roles(g, player_id, roles) ==
    IF Len(roles) # Len(g.players[player_id].hidden)
    THEN Raise(g, "AssertionError")
    ELSE [g EXCEPT !.players[player_id].hidden = roles]

\* ------------------------------------------------------------------------
\* The resolvers of a turn
\* ------------------------------------------------------------------------
\* a dict keyed by player id
EmptyDict == [p \in {} |-> PASS]
DictPut(d, k, v) == [q \in (DOMAIN d) \cup {k} |-> IF q = k THEN v ELSE d[q]]
DictValues(d) == {d[k] : k \in DOMAIN d}

IllegalUnknown == "IllegalAction: Unknown action"
IllegalTarget == "IllegalAction: Unknown target player"
IllegalAfford(name) == "IllegalAction: Cannot afford to " \o name
IllegalMustCoup == "IllegalAction: Players with 10 or more credits must coup"
IllegalNoRole == "IllegalAction: Player does not have role"
IllegalCount == "IllegalAction: Must choose roles"
IllegalPool == "IllegalAction: Chosen roles are not available"

\* Challenge.__init__: the context after the claim is traced, and the object
Challenge(g, challenged_player, role) ==
    LET player_id == get_next_player(g, challenged_player)
    IN  [g |-> IF player_id = NoPlayer
               THEN Raise(g, "RuntimeError: only one player left alive")
               ELSE trace_claim(g, challenged_player, role),
         obj |-> [kind |-> "Challenge", challenged_player |-> challenged_player,
                  role |-> role, player_id |-> player_id,
                  responses |-> EmptyDict, reveal |-> None,
                  challenge_correct |-> "None"]]

\* Block.__init__
Block(g, action, roles, blocking_player_id) ==
    LET player_id == IF blocking_player_id # NoPlayer THEN blocking_player_id
                     ELSE get_next_player(g, action.player_id)
    IN  [g |-> IF player_id = NoPlayer
               THEN Raise(g, "RuntimeError: only one player left alive")
               ELSE g,
         obj |-> [kind |-> "Block", blocking_player_id |-> blocking_player_id,
                  player_id |-> player_id, roles |-> roles,
                  responses |-> EmptyDict, challenge |-> None]]

\* The Challenge a call works on is the action's own (path "action") or the
\* one over a block (path "block"); its parent is the Action or the Block.
GetChallenge(g, path) ==
    IF path = "action" THEN g.turn.action.challenge
    ELSE g.turn.action.block.challenge

SetChallenge(g, path, c) ==
    IF path = "action" THEN [g EXCEPT !.turn.action.challenge = c]
    ELSE [g EXCEPT !.turn.action.block.challenge = c]

\* CoupDealer.deal_cards(2), in ExchangeAction.do_action
deal_two(g) ==
    UNION {IF d1.g.err # NoErr THEN {[g |-> d1.g, cards |-> <<>>]}
           ELSE {[g |-> d2.g, cards |-> <<d1.card, d2.card>>] : d2 \in deal_one(d1.g)}
           : d1 \in deal_one(g)}

\* do_action with a steal that pays the actor 2 whatever the target had
do_action_steal_unclamped(g) ==
    LET a == g.turn.action
    IN  IF a.name = FOREIGN_AID THEN {end_turn(add_cash(g, a.player_id, 2))}
        ELSE IF a.name = STEAL THEN
            LET d == deduct_cash(g, a.target_player, 2)
            IN  {end_turn(add_cash(d.g, a.player_id, 2))}
        ELSE IF a.name = TAX THEN {end_turn(add_cash(g, a.player_id, 3))}
        ELSE IF a.name = ASSASSINATE THEN
            {[g EXCEPT !.turn.action.final_action =
                           Reveal(a.target_player, DIRECT_ATTACK)]}
        ELSE IF a.name = EXCHANGE THEN
            IF a.drawn_roles # <<>> THEN {Raise(g, "AssertionError")}
            ELSE {IF d.g.err # NoErr THEN d.g
                  ELSE [d.g EXCEPT !.turn.action.drawn_roles = d.cards]
                  : d \in deal_two(g)}
        ELSE {Raise(g, "NotImplementedError: do_action")}

\* do_action with a tax that pays 2 as foreign aid does
do_action_tax_two(g) ==
    LET a == g.turn.action
    IN  IF a.name = TAX THEN {end_turn(add_cash(g, a.player_id, 2))}
        ELSE IF a.name = FOREIGN_AID THEN {end_turn(add_cash(g, a.player_id, 2))}
        ELSE IF a.name = STEAL THEN
            LET d == deduct_cash(g, a.target_player, 2)
            IN  {end_turn(add_cash(d.g, a.player_id, d.cash))}
        ELSE IF a.name = ASSASSINATE THEN
            {[g EXCEPT !.turn.action.final_action =
                           Reveal(a.target_player, DIRECT_ATTACK)]}
        ELSE IF a.name = EXCHANGE THEN
            IF a.drawn_roles # <<>> THEN {Raise(g, "AssertionError")}
            ELSE {IF d.g.err # NoErr THEN d.g
                  ELSE [d.g EXCEPT !.turn.action.drawn_roles = d.cards]
                  : d \in deal_two(g)}
        ELSE {Raise(g, "NotImplementedError: do_action")}

\* do_action of ForeignAid, Steal, Tax, AssassinateAction, ExchangeAction;
\* CoupAction inherits Action.do_action
do_action(g) ==
    LET a == g.turn.action
    IN  IF a.name = FOREIGN_AID THEN {end_turn(add_cash(g, a.player_id, 2))}
        ELSE IF a.name = STEAL THEN
            LET d == deduct_cash(g, a.target_player, 2)
            IN  {end_turn(add_cash(d.g, a.player_id, d.cash))}
        ELSE IF a.name = TAX THEN {end_turn(add_cash(g, a.player_id, 3))}
        ELSE IF a.name = ASSASSINATE THEN
            {[g EXCEPT !.turn.action.final_action =
                           Reveal(a.target_player, DIRECT_ATTACK)]}
        ELSE IF a.name = EXCHANGE THEN
            IF a.drawn_roles # <<>> THEN {Raise(g, "AssertionError")}
            ELSE {IF d.g.err # NoErr THEN d.g
                  ELSE [d.g EXCEPT !.turn.action.drawn_roles = d.cards]
                  : d \in deal_two(g)}
        ELSE {Raise(g, "NotImplementedError: do_action")}

\* action_accepted opening a block round for a steal only
action_accepted_steal_only(g) ==
    LET a == g.turn.action
        b == Block(g, a, <<AMBASSADOR, CAPTAIN>>, a.target_player)
    IN  IF a.name = STEAL
        THEN IF b.g.err # NoErr THEN b.g
             ELSE [b.g EXCEPT !.turn.action.block = b.obj]
        ELSE g

\* action_accepted of Steal and AssassinateAction; Action.action_accepted
action_accepted(g) ==
    LET a == g.turn.action
        b == IF a.name = STEAL
             THEN Block(g, a, <<AMBASSADOR, CAPTAIN>>, a.target_player)
             ELSE Block(g, a, <<CONTESSA>>, a.target_player)
    IN  IF a.name \in {STEAL, ASSASSINATE}
        THEN IF b.g.err # NoErr THEN b.g
             ELSE [b.g EXCEPT !.turn.action.block = b.obj]
        ELSE g

\* resolve_challenge without the test that the target is still alive
resolve_challenge_target_untested(g, action_allowed) ==
    LET g1 == [g EXCEPT !.turn.action.challenge = None]
        a == g1.turn.action
    IN  IF action_allowed
        THEN LET g3 == action_accepted(deduct_cash(g1, a.player_id, a.cost).g)
             IN  IF g3.err # NoErr THEN {g3}
                 ELSE IF g3.turn.action.block = None THEN do_action(g3)
                 ELSE {g3}
        ELSE {end_turn(g1)}

\* resolve_challenge taking the cost only after the test of the target
resolve_challenge_dead_target_free(g, action_allowed) ==
    LET g1 == [g EXCEPT !.turn.action.challenge = None]
        a == g1.turn.action
    IN  IF action_allowed
        THEN IF a.target_player # NoPlayer /\ ~is_alive(g1, a.target_player)
             THEN {end_turn(g1)}
             ELSE LET g3 == action_accepted(deduct_cash(g1, a.player_id, a.cost).g)
                  IN  IF g3.err # NoErr THEN {g3}
                      ELSE IF g3.turn.action.block = None THEN do_action(g3)
                      ELSE {g3}
        ELSE {end_turn(g1)}

\* Action.resolve_challenge
resolve_challenge(g, action_allowed) ==
    LET g1 == [g EXCEPT !.turn.action.challenge = None]
        a == g1.turn.action
    IN  IF action_allowed
        THEN LET g2 == deduct_cash(g1, a.player_id, a.cost).g
             IN  IF a.target_player # NoPlayer /\ ~is_alive(g2, a.target_player)
                 THEN {end_turn(g2)}
                 ELSE LET g3 == action_accepted(g2)
                      IN  IF g3.err # NoErr THEN {g3}
                          ELSE IF g3.turn.action.block = None THEN do_action(g3)
                          ELSE {g3}
        ELSE {end_turn(g1)}

\* resolve_block without the test that the target is still alive
resolve_block_target_untested(g, action_allowed) ==
    LET g1 == [g EXCEPT !.turn.action.block = None]
    IN  IF action_allowed THEN do_action(g1) ELSE {end_turn(g1)}

\* resolve_block sparing a dead target the steal only
resolve_block_dead_target_attacked(g, action_allowed) ==
    LET g1 == [g EXCEPT !.turn.action.block = None]
        a == g1.turn.action
    IN  IF action_allowed
        THEN IF /\ a.name = STEAL
                /\ a.target_player # NoPlayer /\ ~is_alive(g1, a.target_player)
             THEN {end_turn(g1)}
             ELSE do_action(g1)
        ELSE {end_turn(g1)}

\* resolve_block opening the block round again when the block stands
resolve_block_reopened(g, action_allowed) ==
    LET g1 == [g EXCEPT !.turn.action.block = None]
        a == g1.turn.action
    IN  IF action_allowed
        THEN IF a.target_player # NoPlayer /\ ~is_alive(g1, a.target_player)
             THEN {end_turn(g1)}
             ELSE do_action(g1)
        ELSE {[g EXCEPT !.turn.action.block.responses = EmptyDict,
                        !.turn.action.block.challenge = None]}

\* Action.resolve_block
resolve_block(g, action_allowed) ==
    LET g1 == [g EXCEPT !.turn.action.block = None]
        a == g1.turn.action
    IN  IF action_allowed
        THEN IF a.target_player # NoPlayer /\ ~is_alive(g1, a.target_player)
             THEN {end_turn(g1)}
             ELSE do_action(g1)
        ELSE {end_turn(g1)}

\* Block.resolve_challenge
Block_resolve_challenge(g, block_allowed) == resolve_block(g, ~block_allowed)

\* self.parent.resolve_challenge(...) in Challenge
parent_resolve_challenge(g, path, allowed) ==
    IF path = "action" THEN resolve_challenge(g, allowed)
    ELSE Block_resolve_challenge(g, allowed)

\* _reveal_next_challenger making the next living player reveal, whatever
\* that player answered
reveal_next_challenger_any_answer(g, path, last_player) ==
    LET c == GetChallenge(g, path)
        player_id == get_next_player(g, last_player)
    IN  IF player_id = NoPlayer
        THEN {Raise(g, "RuntimeError: only one player left alive")}
        ELSE IF player_id = c.challenged_player
        THEN parent_resolve_challenge(g, path, TRUE)
        ELSE {SetChallenge(g, path,
                 [c EXCEPT !.reveal = Reveal(player_id, INCORRECT_CHALLENGE)])}

\* Challenge._reveal_next_challenger
RECURSIVE reveal_next_challenger(_, _, _)
reveal_next_challenger(g, path, last_player) ==
    LET c == GetChallenge(g, path)
        player_id == get_next_player(g, last_player)
    IN  IF player_id = NoPlayer
        THEN {Raise(g, "RuntimeError: only one player left alive")}
        ELSE IF player_id = c.challenged_player
        THEN parent_resolve_challenge(g, path, TRUE)
        ELSE IF player_id \notin DOMAIN c.responses
        THEN {Raise(g, "KeyError")}
        ELSE IF c.responses[player_id] = CHALLENGE
        THEN LET phase_name == IF c.challenge_correct = "True"
                               THEN CORRECT_CHALLENGE ELSE INCORRECT_CHALLENGE
             IN  {SetChallenge(g, path,
                     [c EXCEPT !.reveal = Reveal(player_id, phase_name)])}
        ELSE reveal_next_challenger(g, path, player_id)

\* after_reveal deciding the challenge by whether the challenged player
\* holds the claimed role, whatever card is shown
Challenge_after_reveal_by_holding(g, path, revealed_role) ==
    LET c == GetChallenge(g, path)
    IN  IF c.challenge_correct = "None"
        THEN IF ~player_has_role(g, c.challenged_player, c.role)
             THEN LET g1 == SetChallenge(g, path, [c EXCEPT !.challenge_correct = "True"])
                      g2 == reveal_role(g1, c.challenged_player, revealed_role)
                  IN  IF g2.err # NoErr THEN {g2}
                      ELSE parent_resolve_challenge(
                               trace_lost_challenge(g2, c.challenged_player, c.role),
                               path, FALSE)
             ELSE LET g1 == SetChallenge(g, path, [c EXCEPT !.challenge_correct = "False"])
                  IN  Then(replace_role(g1, c.challenged_player, c.role),
                           LAMBDA h : reveal_next_challenger(h, path, c.challenged_player))
        ELSE IF c.challenge_correct = "True" THEN {Raise(g, "AssertionError")}
        ELSE LET g1 == reveal_role(g, c.reveal.player_id, revealed_role)
             IN  IF g1.err # NoErr THEN {g1}
                 ELSE reveal_next_challenger(g1, path, c.reveal.player_id)

\* after_reveal making the challengers reveal after a correct challenge too
Challenge_after_reveal_correct_cascade(g, path, revealed_role) ==
    LET c == GetChallenge(g, path)
    IN  IF c.challenge_correct = "None"
        THEN IF revealed_role # c.role
             THEN LET g1 == SetChallenge(g, path, [c EXCEPT !.challenge_correct = "True"])
                      g2 == reveal_role(g1, c.challenged_player, revealed_role)
                  IN  IF g2.err # NoErr THEN {g2}
                      ELSE reveal_next_challenger(
                               trace_lost_challenge(g2, c.challenged_player, c.role),
                               path, c.challenged_player)
             ELSE LET g1 == SetChallenge(g, path, [c EXCEPT !.challenge_correct = "False"])
                  IN  Then(replace_role(g1, c.challenged_player, revealed_role),
                           LAMBDA h : reveal_next_challenger(h, path, c.challenged_player))
        ELSE LET g1 == reveal_role(g, c.reveal.player_id, revealed_role)
             IN  IF g1.err # NoErr THEN {g1}
                 ELSE reveal_next_challenger(g1, path, c.reveal.player_id)

\* Challenge.after_reveal
Challenge_after_reveal(g, path, revealed_role) ==
    LET c == GetChallenge(g, path)
    IN  IF c.challenge_correct = "None"
        THEN IF revealed_role # c.role
             THEN LET g1 == SetChallenge(g, path, [c EXCEPT !.challenge_correct = "True"])
                      g2 == reveal_role(g1, c.challenged_player, revealed_role)
                  IN  IF g2.err # NoErr THEN {g2}
                      ELSE parent_resolve_challenge(
                               trace_lost_challenge(g2, c.challenged_player, c.role),
                               path, FALSE)
             ELSE LET g1 == SetChallenge(g, path, [c EXCEPT !.challenge_correct = "False"])
                  IN  Then(replace_role(g1, c.challenged_player, revealed_role),
                           LAMBDA h : reveal_next_challenger(h, path, c.challenged_player))
        ELSE IF c.challenge_correct = "True" THEN {Raise(g, "AssertionError")}
        ELSE LET g1 == reveal_role(g, c.reveal.player_id, revealed_role)
             IN  IF g1.err # NoErr THEN {g1}
                 ELSE reveal_next_challenger(g1, path, c.reveal.player_id)

\* after_reveal of CoupAction and AssassinateAction
Action_after_reveal(g, revealed_role) ==
    LET g1 == reveal_role(g, g.turn.action.target_player, revealed_role)
    IN  IF g1.err # NoErr THEN {g1} ELSE {end_turn(g1)}

\* Reveal.play_action recording the reveal before it checks the role
Reveal_play_action_trace_first(g, where, action) ==
    LET r == IF where = "final" THEN g.turn.action.final_action
             ELSE GetChallenge(g, where).reveal
        role == IF Len(action.roles) = 1 THEN action.roles[1] ELSE "None"
        g1 == trace_reveal(g, r.player_id, role)
    IN  IF action.name # REVEAL THEN {Raise(g, IllegalUnknown)}
        ELSE IF ~player_has_role(g, r.player_id, role)
        THEN {Raise(g1, IllegalNoRole)}
        ELSE IF where = "final" THEN Action_after_reveal(g1, role)
        ELSE Challenge_after_reveal(g1, where, role)

\* Reveal.play_action; the Reveal is the action's final_action (where =
\* "final") or the reveal of the Challenge at path where
Reveal_play_action(g, where, action) ==
    LET r == IF where = "final" THEN g.turn.action.final_action
             ELSE GetChallenge(g, where).reveal
        role == IF Len(action.roles) = 1 THEN action.roles[1] ELSE "None"
    IN  IF action.name # REVEAL THEN {Raise(g, IllegalUnknown)}
        ELSE IF ~player_has_role(g, r.player_id, role)
        THEN {Raise(g, IllegalNoRole)}
        ELSE LET g1 == trace_reveal(g, r.player_id, role)
             IN  IF where = "final" THEN Action_after_reveal(g1, role)
                 ELSE Challenge_after_reveal(g1, where, role)

\* Challenge.play_action making the challenged player reveal as soon as one
\* player answers challenge
Challenge_play_action_at_once(g, path, action) ==
    LET c == GetChallenge(g, path)
    IN  IF c.reveal # None THEN Reveal_play_action(g, path, action)
        ELSE IF action # Act0(PASS) /\ action # Act0(CHALLENGE)
        THEN {Raise(g, IllegalUnknown)}
        ELSE LET c1 == [c EXCEPT !.responses = DictPut(@, c.player_id, action.name)]
                 g1 == SetChallenge(g, path, c1)
                 next_player_id == get_next_player(g1, c.player_id)
             IN  IF next_player_id = NoPlayer
                 THEN {Raise(g1, "RuntimeError: only one player left alive")}
                 ELSE IF action = Act0(CHALLENGE)
                 THEN {SetChallenge(g1, path,
                          [c1 EXCEPT !.reveal =
                              Reveal(c.challenged_player, PROVE_CHALLENGE)])}
                 ELSE IF next_player_id = c.challenged_player
                 THEN parent_resolve_challenge(g1, path, TRUE)
                 ELSE {SetChallenge(g1, path, [c1 EXCEPT !.player_id = next_player_id])}

\* Challenge.play_action ending the round when the poll comes back to the
\* first player asked, so that the challenged player is polled as well
Challenge_play_action_full_circle(g, path, action) ==
    LET c == GetChallenge(g, path)
    IN  IF c.reveal # None THEN Reveal_play_action(g, path, action)
        ELSE IF action # Act0(PASS) /\ action # Act0(CHALLENGE)
        THEN {Raise(g, IllegalUnknown)}
        ELSE LET c1 == [c EXCEPT !.responses = DictPut(@, c.player_id, action.name)]
                 g1 == SetChallenge(g, path, c1)
                 next_player_id == get_next_player(g1, c.player_id)
             IN  IF next_player_id = NoPlayer
                 THEN {Raise(g1, "RuntimeError: only one player left alive")}
                 ELSE IF next_player_id = get_next_player(g1, c.challenged_player)
                 THEN IF CHALLENGE \in DictValues(c1.responses)
                      THEN {SetChallenge(g1, path,
                              [c1 EXCEPT !.reveal =
                                  Reveal(c.challenged_player, PROVE_CHALLENGE)])}
                      ELSE parent_resolve_challenge(g1, path, TRUE)
                 ELSE {SetChallenge(g1, path, [c1 EXCEPT !.player_id = next_player_id])}

\* Challenge.play_action
Challenge_play_action(g, path, action) ==
    LET c == GetChallenge(g, path)
    IN  IF c.reveal # None THEN Reveal_play_action(g, path, action)
        ELSE IF action # Act0(PASS) /\ action # Act0(CHALLENGE)
        THEN {Raise(g, IllegalUnknown)}
        ELSE LET c1 == [c EXCEPT !.responses = DictPut(@, c.player_id, action.name)]
                 g1 == SetChallenge(g, path, c1)
                 next_player_id == get_next_player(g1, c.player_id)
             IN  IF next_player_id = NoPlayer
                 THEN {Raise(g1, "RuntimeError: only one player left alive")}
                 ELSE IF next_player_id = c.challenged_player
                 THEN IF CHALLENGE \in DictValues(c1.responses)
                      THEN {SetChallenge(g1, path,
                              [c1 EXCEPT !.reveal =
                                  Reveal(c.challenged_player, PROVE_CHALLENGE)])}
                      ELSE parent_resolve_challenge(g1, path, TRUE)
                 ELSE {SetChallenge(g1, path, [c1 EXCEPT !.player_id = next_player_id])}

\* the blockers in the order of self.responses.items(): the order in which
\* the seats answered, which is the seat order after the acting player
blockers(g) ==
    LET b == g.turn.action.block
        after == [i \in 1..NumPlayers |-> (g.turn.action.player_id + i) % NumPlayers]
        blocked(k) == k \in DOMAIN b.responses /\ b.responses[k] # PASS
    IN  SelectSeq(after, blocked)

\* CoupDealer.choose(items): the indexes the generator may pick
choose(g, items) ==
    IF g.rng = None THEN DOMAIN items
    ELSE {np_random_choice(g.rng, Len(items)) + 1}

\* _execute_block choosing among all who answered, passers included
execute_block_any_respondent(g) ==
    LET b == g.turn.action.block
        blocks == blockers(g)
        all == SelectSeq([i \in 1..NumPlayers |-> i - 1],
                         LAMBDA k : k \in DOMAIN b.responses)
    IN  IF Len(blocks) = 0 THEN resolve_block(g, TRUE)
        ELSE {LET c == Challenge(g, all[i], b.roles[1])
              IN  IF c.g.err # NoErr THEN c.g
                  ELSE [c.g EXCEPT !.turn.action.block.challenge = c.obj]
              : i \in DOMAIN all}

\* _execute_block picking a blocker without asking the generator
execute_block_any_blocker(g) ==
    LET b == g.turn.action.block
        blocks == blockers(g)
    IN  IF Len(blocks) = 0 THEN resolve_block(g, TRUE)
        ELSE {LET c == Challenge(g, blocks[i], b.responses[blocks[i]])
              IN  IF c.g.err # NoErr THEN c.g
                  ELSE [c.g EXCEPT !.turn.action.block.challenge = c.obj]
              : i \in DOMAIN blocks}

\* Block._execute_block
execute_block(g) ==
    LET b == g.turn.action.block
        blocks == blockers(g)
        picked == IF Len(blocks) = 1 THEN {[g |-> g, i |-> 1]}
                  ELSE {[g |-> np_random_advance(g), i |-> i] : i \in choose(g, blocks)}
    IN  IF Len(blocks) = 0 THEN resolve_block(g, TRUE)
        ELSE {LET c == Challenge(p.g, blocks[p.i], b.responses[blocks[p.i]])
              IN  IF c.g.err # NoErr THEN c.g
                  ELSE [c.g EXCEPT !.turn.action.block.challenge = c.obj]
              : p \in picked}

\* the response accepting a block only with the first role of the round
extract_response_first_role(b, action) ==
    IF action = Act0(PASS) THEN PASS
    ELSE IF action.name = BLOCK /\ action.target = NoPlayer /\ Len(action.roles) = 1
            /\ b.roles[1] = action.roles[1]
    THEN action.roles[1]
    ELSE "None"

\* Block._extract_response: "None" stands for the IllegalAction raised
extract_response(b, action) ==
    IF action = Act0(PASS) THEN PASS
    ELSE IF action.name = BLOCK /\ action.target = NoPlayer /\ Len(action.roles) = 1
            /\ Contains(b.roles, action.roles[1])
    THEN action.roles[1]
    ELSE "None"

\* Block.play_action polling every player after the one who may block, as
\* for a foreign aid
Block_play_action_polls_all(g, action) ==
    LET b == g.turn.action.block
        response == extract_response(b, action)
    IN  IF b.challenge # None THEN Challenge_play_action(g, "block", action)
        ELSE IF response = "None" THEN {Raise(g, IllegalUnknown)}
        ELSE LET g1 == [g EXCEPT !.turn.action.block.responses =
                                     DictPut(@, b.player_id, response)]
                 next_player_id == get_next_player(g1, b.player_id)
             IN  IF next_player_id = NoPlayer
                 THEN {Raise(g1, "RuntimeError: only one player left alive")}
                 ELSE IF next_player_id = g1.turn.action.player_id
                 THEN execute_block(g1)
                 ELSE {[g1 EXCEPT !.turn.action.block.player_id = next_player_id]}

\* Block.play_action
Block_play_action(g, action) ==
    LET b == g.turn.action.block
        response == extract_response(b, action)
    IN  IF b.challenge # None THEN Challenge_play_action(g, "block", action)
        ELSE IF response = "None" THEN {Raise(g, IllegalUnknown)}
        ELSE LET g1 == [g EXCEPT !.turn.action.block.responses =
                                     DictPut(@, b.player_id, response)]
                 next_player_id == get_next_player(g1, b.player_id)
             IN  IF b.blocking_player_id # NoPlayer THEN execute_block(g1)
                 ELSE IF next_player_id = NoPlayer
                 THEN {Raise(g1, "RuntimeError: only one player left alive")}
                 ELSE IF next_player_id = g1.turn.action.player_id
                 THEN execute_block(g1)
                 ELSE {[g1 EXCEPT !.turn.action.block.player_id = next_player_id]}

\* the loop of play_final_action without pool.remove(r)
take_from_pool_no_remove(pool, new_roles) ==
    [ok |-> \A i \in DOMAIN new_roles : Contains(pool, new_roles[i]),
     pool |-> pool]

\* the loop of ExchangeAction.play_final_action: every chosen role is taken
\* out of the pool; "None" stands for a role that is not available
RECURSIVE take_from_pool(_, _)
take_from_pool(pool, new_roles) ==
    IF new_roles = <<>> THEN [ok |-> TRUE, pool |-> pool]
    ELSE IF ~Contains(pool, Head(new_roles)) THEN [ok |-> FALSE, pool |-> pool]
    ELSE take_from_pool(Remove(pool, Head(new_roles)), Tail(new_roles))

\* play_final_action leaving the cards not chosen out of the deck
Exchange_play_final_action_pool_kept(g, action) ==
    LET a == g.turn.action
        new_roles == keep_decode(action)
        existing_roles == get_influence(g, a.player_id)
        taken == take_from_pool(existing_roles \o a.drawn_roles, new_roles)
    IN  IF action.name # KEEP THEN Raise(g, IllegalUnknown)
        ELSE IF Len(new_roles) # Len(existing_roles) THEN Raise(g, IllegalCount)
        ELSE IF ~taken.ok THEN Raise(g, IllegalPool)
        ELSE LET g1 == replace_all_roles(g, a.player_id, new_roles)
             IN  IF g1.err # NoErr THEN g1
                 ELSE end_turn(trace_exchange(g1, a.player_id))

\* ExchangeAction.play_final_action
Exchange_play_final_action(g, action) ==
    LET a == g.turn.action
        new_roles == keep_decode(action)
        existing_roles == get_influence(g, a.player_id)
        taken == take_from_pool(existing_roles \o a.drawn_roles, new_roles)
    IN  IF action.name # KEEP THEN Raise(g, IllegalUnknown)
        ELSE IF Len(new_roles) # Len(existing_roles) THEN Raise(g, IllegalCount)
        ELSE IF ~taken.ok THEN Raise(g, IllegalPool)
        ELSE LET g1 == replace_all_roles(g, a.player_id, new_roles)
             IN  IF g1.err # NoErr THEN g1
                 ELSE end_turn(trace_exchange(replace_cards(g1, taken.pool),
                                              a.player_id))

\* Action.play_final_action, overridden by ExchangeAction
play_final_action(g, action) ==
    IF g.turn.action.name = EXCHANGE THEN {Exchange_play_final_action(g, action)}
    ELSE {Raise(g, "RuntimeError: could not resolve action")}

\* Action.play_action
Action_play_action(g, action) ==
    LET a == g.turn.action
    IN  IF a.challenge # None THEN Challenge_play_action(g, "action", action)
        ELSE IF a.block # None THEN Block_play_action(g, action)
        ELSE IF a.final_action # None THEN Reveal_play_action(g, "final", action)
        ELSE play_final_action(g, action)

\* _can_afford_action asking for more cash than the cost
can_afford_action_strict(g, action_name) ==
    g.players[g.turn.player_id].cash > ACTION_COSTS(action_name)

\* Turn._can_afford_action
can_afford_action(g, action_name) ==
    can_afford(g, g.turn.player_id, ACTION_COSTS(action_name))

\* ACTION_RE.fullmatch(action_str) is not None
matches_ACTION_RE(action) ==
    /\ action.roles = <<>>
    /\ \/ Contains(UNTARGETED_ACTIONS, action.name) /\ action.target = NoPlayer
       \/ Contains(TARGETED_ACTIONS, action.name) /\ action.target >= 0

\* the constructors of ForeignAid, Steal, Tax, AssassinateAction,
\* ExchangeAction and CoupAction: the context after it and the object
new_action(g, action_name, player_id, target_player) ==
    LET base == Action(action_name, player_id,
                       IF Contains(TARGETED_ACTIONS, action_name)
                       THEN target_player ELSE NoPlayer)
        role == IF action_name = STEAL THEN CAPTAIN
                ELSE IF action_name = TAX THEN DUKE
                ELSE IF action_name = ASSASSINATE THEN ASSASSIN
                ELSE AMBASSADOR
        c == Challenge(g, player_id, role)
        b == Block(g, base, <<DUKE>>, NoPlayer)
    IN  IF action_name = FOREIGN_AID
        THEN [g |-> b.g, obj |-> [base EXCEPT !.block = b.obj]]
        ELSE IF action_name = COUP
        THEN [g |-> g, obj |-> [base EXCEPT !.final_action =
                                    Reveal(target_player, DIRECT_ATTACK)]]
        ELSE [g |-> c.g, obj |-> [base EXCEPT !.challenge = c.obj]]

\* Action.init taking no cash
Action_init_unpaid(g, a) == g

\* Action.init
Action_init(g, a) ==
    IF a.challenge = None THEN deduct_cash(g, a.player_id, a.cost).g ELSE g

\* the mandatory coup applying from 11 credits on
must_coup_from_11(g, action_name) ==
    can_afford(g, g.turn.player_id, 11) /\ action_name # COUP

\* no coup is mandatory
must_coup_never(g, action_name) == FALSE

\* the test of the mandatory coup in Turn._play_initial_action
must_coup(g, action_name) ==
    can_afford(g, g.turn.player_id, 10) /\ action_name # COUP

\* Turn._play_initial_action
play_initial_action(g, action) ==
    LET action_name == action.name
        target_player == action.target
        n == new_action(g, action_name, g.turn.player_id, target_player)
    IN  IF ~matches_ACTION_RE(action) THEN Raise(g, IllegalUnknown)
        ELSE IF target_player # NoPlayer /\ target_player >= NumPlayers
        THEN Raise(g, IllegalTarget)
        ELSE IF ~can_afford_action(g, action_name)
        THEN Raise(g, IllegalAfford(action_name))
        ELSE IF must_coup(g, action_name) THEN Raise(g, IllegalMustCoup)
        ELSE IF action_name = INCOME
        THEN end_turn(add_cash(g, g.turn.player_id, 1))
        ELSE IF n.g.err # NoErr THEN n.g
        ELSE [Action_init(n.g, n.obj) EXCEPT !.turn.action = n.obj]

\* Turn.play_action
Turn_play_action(g, action) ==
    IF g.turn.action # None THEN Action_play_action(g, action)
    ELSE {play_initial_action(g, action)}

\* ------------------------------------------------------------------------
\* Queries on the game state
\* ------------------------------------------------------------------------
\* the context of a query: Ctx of the current variables
Here == Ctx(players, deck, state)

\* Reveal.player_to_act, Challenge.player_to_act, Block.player_to_act,
\* Action.player_to_act, Turn.player_to_act, GameOver.player_to_act
Challenge_player_to_act(c) ==
    IF c.reveal # None THEN c.reveal.player_id ELSE c.player_id

Block_player_to_act(b) ==
    IF b.challenge # None THEN Challenge_player_to_act(b.challenge) ELSE b.player_id

Action_player_to_act(a) ==
    IF a.challenge # None THEN Challenge_player_to_act(a.challenge)
    ELSE IF a.block # None THEN Block_player_to_act(a.block)
    ELSE IF a.final_action # None THEN a.final_action.player_id
    ELSE a.player_id

\* Coup.player_to_act; NoPlayer is the None of GameOver
player_to_act(st) ==
    IF st.kind = "GameOver" THEN NoPlayer
    ELSE IF st.action # None THEN Action_player_to_act(st.action)
    ELSE st.player_id

\* Turn.get_state()['phase'] with the augment_state of Action, Challenge,
\* Block, Reveal and ExchangeAction; GameOver.get_state()['phase']
Challenge_phase(c, phase) ==
    IF c.reveal # None THEN c.reveal.phase_name ELSE phase

Action_phase(a) ==
    LET p1 == IF a.challenge # None
              THEN Challenge_phase(a.challenge, AWAITING_CHALLENGE)
              ELSE START_OF_TURN
        p2 == IF a.block # None
              THEN IF a.block.challenge # None
                   THEN Challenge_phase(a.block.challenge, AWAITING_BLOCK_CHALLENGE)
                   ELSE AWAITING_BLOCK
              ELSE p1
        p3 == IF a.final_action # None THEN a.final_action.phase_name ELSE p2
    IN  IF a.drawn_roles # <<>> THEN CHOOSE_NEW_ROLES ELSE p3

phase(st) ==
    IF st.kind = "GameOver" THEN GAME_OVER
    ELSE IF st.action # None THEN Action_phase(st.action)
    ELSE START_OF_TURN

\* CoupPlayer.get_state
Player_get_state(player) ==
    [cash |-> player.cash, hidden |-> SortedRoles(player.hidden),
     revealed |-> SortedRoles(player.revealed), trace |-> player.trace]

\* Turn.get_state giving blocked_with and blocking_player whenever the
\* action has a Block
Turn_get_state_block_fields_on_poll(st) ==
    LET a == st.action
        blocked == a # None /\ a.block # None
        declared == blocked /\ a.block.challenge # None
    IN  [phase |-> phase(st),
         whose_turn |-> st.player_id,
         player_to_act |-> player_to_act(st),
         action |-> IF a # None THEN a.name ELSE "None",
         target_player |-> IF a # None THEN a.target_player ELSE NoPlayer,
         blocked_with |-> IF declared THEN a.block.challenge.role
                          ELSE IF blocked THEN a.block.roles[1] ELSE "None",
         blocking_player |-> IF declared THEN a.block.challenge.challenged_player
                             ELSE IF blocked THEN a.block.player_id ELSE NoPlayer,
         drawn_roles |-> IF a # None THEN a.drawn_roles ELSE <<>>,
         winning_player |-> NoPlayer]

\* Turn.get_state and GameOver.get_state: the dict as a record, a key that
\* is absent having the value "None" (a role or a name), NoPlayer (a
\* player) or <<>> (the drawn roles)
Turn_get_state(st) ==
    LET a == st.action
        blocked == a # None /\ a.block # None /\ a.block.challenge # None
    IN  [phase |-> phase(st),
         whose_turn |-> st.player_id,
         player_to_act |-> player_to_act(st),
         action |-> IF a # None THEN a.name ELSE "None",
         target_player |-> IF a # None THEN a.target_player ELSE NoPlayer,
         blocked_with |-> IF blocked THEN a.block.challenge.role ELSE "None",
         blocking_player |-> IF blocked THEN a.block.challenge.challenged_player
                             ELSE NoPlayer,
         drawn_roles |-> IF a # None THEN a.drawn_roles ELSE <<>>,
         winning_player |-> NoPlayer]

GameOver_get_state(st) ==
    [phase |-> GAME_OVER, whose_turn |-> NoPlayer, player_to_act |-> NoPlayer,
     action |-> "None", target_player |-> NoPlayer, blocked_with |-> "None",
     blocking_player |-> NoPlayer, drawn_roles |-> <<>>,
     winning_player |-> st.winning_player]

\* CoupDealer.get_state: the deck
Dealer_get_state(g) == [deck |-> g.deck]

\* Coup.get_state
get_state(g) ==
    [players |-> [p \in Players |-> Player_get_state(g.players[p])],
     game |-> IF g.turn.kind = "GameOver" THEN GameOver_get_state(g.turn)
              ELSE Turn_get_state(g.turn),
     dealer |-> Dealer_get_state(g)]

\* the seats in increasing order: range(self.game.num_players)
SeatSeq == [i \in 1..NumPlayers |-> i - 1]

\* the targeted actions listed without the test that the target is alive
targeted_actions_any_seat(g, name) ==
    LET other(p) == p # g.turn.player_id
        seats == SelectSeq(SeatSeq, other)
    IN  IF can_afford_action(g, name)
        THEN [i \in 1..Len(seats) |-> ActT(name, seats[i])]
        ELSE <<>>

\* the targeted actions listed without the test of the cost
targeted_actions_any_cost(g, name) ==
    LET living(p) == is_alive(g, p) /\ p # g.turn.player_id
        seats == SelectSeq(SeatSeq, living)
    IN  [i \in 1..Len(seats) |-> ActT(name, seats[i])]

\* [f'{name}:{p}' for p in range(num_players) if alive, not the actor and
\* affordable]
targeted_actions(g, name) ==
    LET living(p) == is_alive(g, p) /\ p # g.turn.player_id
        seats == SelectSeq(SeatSeq, living)
    IN  IF can_afford_action(g, name)
        THEN [i \in 1..Len(seats) |-> ActT(name, seats[i])]
        ELSE <<>>

\* The order of Python strings on the words that start an action string
\* (none is the beginning of another)
WordsInOrder ==
    <<ASSASSINATE, BLOCK, CHALLENGE, COUP, EXCHANGE, FOREIGN_AID, INCOME, KEEP,
      PASS, REVEAL, STEAL, TAX>>
WordRank(w) == CHOOSE i \in DOMAIN WordsInOrder : WordsInOrder[i] = w

\* r < s for two lists of role names joined by commas
RECURSIVE roles_lt(_, _)
roles_lt(r, s) ==
    IF s = <<>> THEN FALSE
    ELSE IF r = <<>> THEN TRUE
    ELSE IF Head(r) # Head(s) THEN RoleRank(Head(r)) < RoleRank(Head(s))
    ELSE roles_lt(Tail(r), Tail(s))

\* a < b for two action strings, as Python compares strings
action_lt(a, b) ==
    IF a.name # b.name THEN WordRank(a.name) < WordRank(b.name)
    ELSE IF a.target # b.target THEN a.target < b.target
    ELSE roles_lt(a.roles, b.roles)

\* sorted(list of action strings)
RECURSIVE sorted(_)
sorted(s) ==
    IF s = <<>> THEN <<>>
    ELSE LET i == CHOOSE k \in DOMAIN s : \A j \in DOMAIN s : ~action_lt(s[j], s[k])
         IN  <<s[i]>> \o sorted(SubSeq(s, 1, i - 1) \o SubSeq(s, i + 1, Len(s)))

\* list(a set), in some order
RECURSIVE list(_)
list(S) ==
    IF S = {} THEN <<>>
    ELSE LET x == CHOOSE y \in S : TRUE IN <<x>> \o list(S \ {x})

\* itertools.combinations(roles, n) for n up to 2, in the order generated
combinations(roles, n) ==
    IF n = 0 THEN <<<<>>>>
    ELSE IF n = 1 THEN [i \in 1..Len(roles) |-> <<roles[i]>>]
    ELSE IF n = 2
    THEN LET pairs == [k \in 1..(Len(roles) * Len(roles)) |->
                          <<((k - 1) \div Len(roles)) + 1, ((k - 1) % Len(roles)) + 1>>]
             rising == SelectSeq(pairs, LAMBDA ij : ij[1] < ij[2])
         IN  [k \in 1..Len(rising) |-> <<roles[rising[k][1]], roles[rising[k][2]]>>]
    ELSE <<>>

\* get_keep_actions keeping one entry for every combination
get_keep_actions_with_duplicates(roles, n) ==
    LET tuples == combinations(roles, n)
    IN  sorted([i \in 1..Len(tuples) |-> keep(tuples[i])])

\* utils.get_keep_actions(roles, n): the body of
\* ActionEncoder.get_exchange_actions
get_keep_actions(roles, n) ==
    LET tuples == combinations(roles, n)
        choices == list({SortedRoles(tuples[i]) : i \in DOMAIN tuples})
    IN  sorted([i \in 1..Len(choices) |-> keep(choices[i])])

\* ------------------------------------------------------------------------
\* ActionEncoder and GameView
\* ------------------------------------------------------------------------
\* ActionEncoder.get_simple_actions: the targets are seen from the player
\* to act, who is seat 0 of its own view
get_simple_actions ==
    LET targeted(name) == [p \in 1..(NumPlayers - 1) |-> ActT(name, p)]
    IN  [i \in 1..Len(UNTARGETED_ACTIONS) |-> Act0(UNTARGETED_ACTIONS[i])]
        \o targeted(TARGETED_ACTIONS[1])
        \o targeted(TARGETED_ACTIONS[2])
        \o targeted(TARGETED_ACTIONS[3])
        \o [i \in 1..Len(BLOCKING_ROLES) |-> block(BLOCKING_ROLES[i])]
        \o [i \in 1..Len(ALL_ROLES) |-> reveal(ALL_ROLES[i])]
        \o <<Act0(CHALLENGE), Act0(PASS)>>

\* id_to_action listing a keep action once for every pair of cards
id_to_action_with_duplicates ==
    get_simple_actions
    \o get_keep_actions(ALL_ROLES, 1)
    \o get_keep_actions_with_duplicates(ALL_ROLES \o ALL_ROLES, 2)

\* ActionEncoder.id_to_action: the action of id i is at position i + 1
id_to_action ==
    get_simple_actions
    \o get_keep_actions(ALL_ROLES, 1)
    \o get_keep_actions(ALL_ROLES \o ALL_ROLES, 2)

\* ActionEncoder.action_to_id: {a: i for i, a in enumerate(id_to_action)},
\* in which the last entry of an action is the one that stays
action_to_id ==
    [a \in SeqToSet(id_to_action) |->
        (CHOOSE i \in DOMAIN id_to_action :
            /\ id_to_action[i] = a
            /\ \A j \in DOMAIN id_to_action : id_to_action[j] = a => j <= i) - 1]

\* ActionEncoder.get_num_actions
get_num_actions == Len(id_to_action)

\* ActionEncoder.encode_action; NoPlayer stands for the KeyError
encode_action(action) ==
    IF action \in DOMAIN action_to_id THEN action_to_id[action] ELSE NoPlayer

\* ActionEncoder.decode_action
decode_action(action_id) == id_to_action[action_id + 1]

\* GameView.map_action_target and unmap_action_target
map_action_target(action, player_id) ==
    IF action.target # NoPlayer
    THEN [action EXCEPT !.target = (action.target - player_id) % NumPlayers]
    ELSE action

unmap_action_target(action, player_id) == map_action_target(action, 0 - player_id)

\* GameView.view_of_actions
view_of_actions(actions, player_id) ==
    sorted([i \in 1..Len(actions) |-> map_action_target(actions[i], player_id)])

\* Reveal.get_legal_actions
Reveal_get_legal_actions(g, r) ==
    LET h == get_influence(g, r.player_id)
    IN  [i \in 1..Len(h) |-> reveal(h[i])]

\* Challenge.get_legal_actions
Challenge_get_legal_actions(g, c) ==
    IF c.reveal # None THEN Reveal_get_legal_actions(g, c.reveal)
    ELSE <<Act0(PASS), Act0(CHALLENGE)>>

\* Block.get_legal_actions
Block_get_legal_actions(g, b) ==
    IF b.challenge # None THEN Challenge_get_legal_actions(g, b.challenge)
    ELSE <<Act0(PASS)>> \o [i \in 1..Len(b.roles) |-> block(b.roles[i])]

\* Action.get_legal_actions with the override of ExchangeAction; <<>>
\* stands for the RuntimeError of an action with nothing pending
Action_get_legal_actions(g, a) ==
    IF a.name = EXCHANGE /\ a.drawn_roles # <<>>
    THEN LET existing_roles == get_influence(g, a.player_id)
         IN  get_keep_actions(existing_roles \o a.drawn_roles, Len(existing_roles))
    ELSE IF a.challenge # None THEN Challenge_get_legal_actions(g, a.challenge)
    ELSE IF a.block # None THEN Block_get_legal_actions(g, a.block)
    ELSE IF a.final_action # None THEN Reveal_get_legal_actions(g, a.final_action)
    ELSE <<>>

\* Turn.get_legal_actions
Turn_get_legal_actions(g) ==
    IF g.turn.action # None THEN Action_get_legal_actions(g, g.turn.action)
    ELSE IF can_afford(g, g.turn.player_id, 10)
    THEN LET living(p) == is_alive(g, p) /\ p # g.turn.player_id
             seats == SelectSeq(SeatSeq, living)
         IN  sorted([i \in 1..Len(seats) |-> ActT(COUP, seats[i])])
    ELSE sorted([i \in 1..Len(UNTARGETED_ACTIONS) |-> Act0(UNTARGETED_ACTIONS[i])]
                \o targeted_actions(g, TARGETED_ACTIONS[1])
                \o targeted_actions(g, TARGETED_ACTIONS[2])
                \o targeted_actions(g, TARGETED_ACTIONS[3]))

\* Coup.get_legal_actions, GameOver.get_legal_actions
get_legal_actions(g) ==
    IF g.turn.kind = "GameOver" THEN <<>> ELSE Turn_get_legal_actions(g)

legal_actions == get_legal_actions(Here)

\* CoupEnv._get_legal_actions: the ids of the legal actions
Env_get_legal_actions(g) ==
    LET actions_view == view_of_actions(get_legal_actions(g), player_to_act(g.turn))
    IN  [i \in 1..Len(actions_view) |-> encode_action(actions_view[i])]

\* CoupEnv._decode_action
Env_decode_action(g, action_id) ==
    unmap_action_target(decode_action(action_id), player_to_act(g.turn))

\* CoupEnv.get_payoffs with CoupGame.get_winner
get_payoffs(st) ==
    [p \in Players |-> IF p = st.winning_player THEN 1 ELSE 0 - 1]

\* ------------------------------------------------------------------------
\* Coup.play_action
\* ------------------------------------------------------------------------
IllegalResults ==
    {IllegalUnknown, IllegalTarget, IllegalAfford(ASSASSINATE),
     IllegalAfford(COUP), IllegalMustCoup, IllegalNoRole, IllegalCount,
     IllegalPool}

IsIllegal(r) == r \in IllegalResults
IsFault(r) == r # NoErr /\ ~IsIllegal(r)

\* the value of game.state when the call returns, and the check that the
\* player to act is alive
finish_play(g) ==
    LET st == IF g.next = None THEN g.turn ELSE g.next
        g1 == [g EXCEPT !.turn = st, !.next = None]
        player_id == player_to_act(st)
    IN  IF g.err # NoErr THEN g1
        ELSE IF st.kind # "GameOver" /\ ~is_alive(g1, player_id)
        THEN Raise(g1, "RuntimeError: player to act is dead")
        ELSE g1

\* play_action refusing a call at game_over with IllegalAction
Coup_play_action_game_over_illegal(g, action) ==
    IF g.turn.kind = "GameOver"
    THEN {Raise(g, IllegalUnknown)}
    ELSE {finish_play(h) : h \in Turn_play_action(g, action)}

\* Coup.play_action; GameOver defines no play_action
Coup_play_action(g, action) ==
    IF g.turn.kind = "GameOver"
    THEN {Raise(g, "AttributeError: GameOver has no play_action")}
    ELSE {finish_play(h) : h \in Turn_play_action(g, action)}

\* ------------------------------------------------------------------------
\* Initial states
\* ------------------------------------------------------------------------
\* CoupDealer.__init__: ALL_ROLES * 3
FullDeck == [r \in Roles |-> 3]

\* number of copies of role r in a list
RECURSIVE Count(_, _)
Count(s, r) ==
    IF s = <<>> THEN 0
    ELSE (IF Head(s) = r THEN 1 ELSE 0) + Count(Tail(s), r)

\* A position: whose turn starts, and per seat the cash, the two cards dealt
\* to the seat and how many of them the seat has lost (in the order dealt).
\* Coup.init_game gives the first position; the others are positions of a
\* game in progress in which only income, unblocked foreign aid and coup
\* have been played, so that a trace holds the reveals only.
Positions ==
    << [turn |-> 0, cash |-> <<2, 2, 2>>, lost |-> <<0, 0, 0>>,
        dealt |-> <<<<DUKE, CAPTAIN>>, <<ASSASSIN, CONTESSA>>, <<AMBASSADOR, DUKE>>>>],
       [turn |-> 0, cash |-> <<3, 1, 8>>, lost |-> <<1, 1, 1>>,
        dealt |-> <<<<DUKE, AMBASSADOR>>, <<DUKE, CONTESSA>>, <<ASSASSIN, DUKE>>>>],
       [turn |-> 2, cash |-> <<7, 4, 10>>, lost |-> <<0, 2, 1>>,
        dealt |-> <<<<CAPTAIN, ASSASSIN>>, <<DUKE, DUKE>>, <<CONTESSA, AMBASSADOR>>>>],
       [turn |-> 0, cash |-> <<7, 7, 1>>, lost |-> <<0, 1, 0>>,
        dealt |-> <<<<CAPTAIN, ASSASSIN>>, <<ASSASSIN, CONTESSA>>, <<AMBASSADOR, CAPTAIN>>>>] >>

PositionPlayers(pos) ==
    [p \in Players |->
        LET cards == pos.dealt[p + 1]
            n == pos.lost[p + 1]
            revealed == SubSeq(cards, 1, n)
        IN  Player(pos.cash[p + 1], SubSeq(cards, n + 1, Len(cards)), revealed,
                   [i \in 1..n |-> <<"reveal", revealed[i]>>])]

PositionDeck(pos) ==
    [r \in Roles |-> 3 - Count(pos.dealt[1] \o pos.dealt[2] \o pos.dealt[3], r)]

Init ==
    \E i \in DOMAIN Positions :
        /\ players = PositionPlayers(Positions[i])
        /\ deck = PositionDeck(Positions[i])
        /\ state = Turn(Positions[i].turn)
        /\ result = NoErr
        /\ plays = 0

\* ------------------------------------------------------------------------
\* Steps
\* ------------------------------------------------------------------------
\* The action strings a caller may pass to play_action: every initial
\* action with every seat and one seat index outside the game, every
\* response, and every keep of one or two roles in any order
RolePairs == {<<r1, r2>> : r1 \in Roles, r2 \in Roles}

Inputs ==
    {Act0(n) : n \in {INCOME, FOREIGN_AID, TAX, EXCHANGE, PASS, CHALLENGE, COUP}}
    \cup {ActT(n, t) : n \in {STEAL, ASSASSINATE, COUP}, t \in 0..NumPlayers}
    \cup {block(r) : r \in Roles}
    \cup {reveal(r) : r \in Roles}
    \cup {ActR(KEEP, <<r>>) : r \in Roles}
    \cup {ActR(KEEP, t) : t \in RolePairs}

\* One call of Coup.play_action(action).  A caller stops using a game
\* object whose play_action raised anything but IllegalAction.
Play(action) ==
    /\ plays < MaxPlays
    /\ ~IsFault(result)
    /\ \E out \in Coup_play_action(Here, action) :
        /\ players' = out.players
        /\ deck' = out.deck
        /\ state' = out.turn
        /\ result' = out.err
        /\ plays' = IF out.err = NoErr THEN plays + 1 ELSE plays

Next == \E action \in Inputs : Play(action)

Spec == Init /\ [][Next]_vars

\* The same, with every action taken from get_legal_actions()
NextLegal == \E i \in DOMAIN legal_actions : Play(legal_actions[i])

SpecLegal == Init /\ [][NextLegal]_vars

\* One turn played to its end.  The positions a turn starts from: those of
\* Positions and two with six hidden cards, in which an assassination or a
\* steal can be challenged by both opponents, blocked, and the block
\* challenged by both other players.
TurnPositions ==
    Positions \o
    << [turn |-> 0, cash |-> <<3, 2, 2>>, lost |-> <<0, 0, 0>>,
        dealt |-> <<<<ASSASSIN, DUKE>>, <<CONTESSA, CAPTAIN>>, <<AMBASSADOR, DUKE>>>>],
       [turn |-> 1, cash |-> <<1, 9, 11>>, lost |-> <<0, 0, 0>>,
        dealt |-> <<<<AMBASSADOR, CONTESSA>>, <<CAPTAIN, ASSASSIN>>, <<CAPTAIN, DUKE>>>>] >>

InitTurn ==
    \E i \in DOMAIN TurnPositions :
        /\ players = PositionPlayers(TurnPositions[i])
        /\ deck = PositionDeck(TurnPositions[i])
        /\ state = Turn(TurnPositions[i].turn)
        /\ result = NoErr
        /\ plays = 0

\* the turn that started is still in progress
TurnOpen == state.kind = "Turn" /\ state.action # None

\* One call of Coup.play_action(action) in the turn that started: the
\* first call of the turn, or a call while its action is pending.  plays
\* counts the accepted calls of the turn.
PlayInTurn(action) ==
    /\ plays = 0 \/ TurnOpen
    /\ plays < MaxTurnPlays
    /\ ~IsFault(result)
    /\ \E out \in Coup_play_action(Here, action) :
        /\ players' = out.players
        /\ deck' = out.deck
        /\ state' = out.turn
        /\ result' = out.err
        /\ plays' = IF out.err = NoErr THEN plays + 1 ELSE plays

NextTurn == \E action \in Inputs : PlayInTurn(action)

SpecTurn == InitTurn /\ [][NextTurn]_vars

\* The same, with every action taken from get_legal_actions()
NextTurnLegal == \E i \in DOMAIN legal_actions : PlayInTurn(legal_actions[i])

SpecTurnLegal == InitTurn /\ [][NextTurnLegal]_vars

\* ------------------------------------------------------------------------
\* Properties
\* ------------------------------------------------------------------------
\* cards held by seats 0..n-1, hidden and revealed
RECURSIVE CardsOfSeats(_)
CardsOfSeats(n) ==
    IF n = 0 THEN 0
    ELSE Len(players[n - 1].hidden) + Len(players[n - 1].revealed)
         + CardsOfSeats(n - 1)

\* deck size plus hidden plus revealed cards of all players
CardTotal == DeckSize(deck) + CardsOfSeats(NumPlayers)

LivePlayers == {p \in Players : Len(players[p].hidden) > 0}
IsOver == state.kind = "GameOver"
AtStartOfTurn == phase(state) = START_OF_TURN

\* C1 as stated: after every play call, in every phase, deck + hidden +
\* revealed = 15.
C1_Conservation == CardTotal = 15

\* C1, amended: after every play call deck + hidden + revealed = 15, except
\* that it is 13 in choose_new_roles, where the two drawn cards are held by
\* the exchange and are in neither the deck nor a hand, and 13 at a
\* game_over that the exchanging player reached by winning the challenge of
\* the exchange (the last challenger died; the draw of C2 follows).
C1_ConservationWithDrawn ==
    /\ [](/\ (~IsOver /\ phase(state) # CHOOSE_NEW_ROLES) => CardTotal = 15
          /\ phase(state) = CHOOSE_NEW_ROLES =>
                 CardTotal = 13 /\ Len(state.action.drawn_roles) = 2
          /\ IsOver => CardTotal \in {13, 15})
    /\ [][(IsOver' /\ ~IsOver) =>
             (CardTotal' = 13 <=> (/\ state.action # None
                                   /\ state.action.name = EXCHANGE
                                   /\ state.action.challenge # None
                                   /\ state'.winning_player = state.player_id))]_vars

C1_Witness == phase(state) = CHOOSE_NEW_ROLES /\ CardTotal = 13

\* C2: in every start_of_turn state and in the game_over state, deck +
\* hidden + revealed = 15, also when the game ends in the reveal cascade of
\* a challenged tax or exchange.
C2_QuiescentConservation ==
    (AtStartOfTurn \/ IsOver) => CardTotal = 15

\* C3: the game is over iff exactly one player has a hidden card, some
\* player is always alive, the winner is the one living player, and the
\* payoffs are +1 for the winner and -1 for everybody else.
C3_GameOverIffOneAlive ==
    /\ IsOver <=> Cardinality(LivePlayers) = 1
    /\ Cardinality(LivePlayers) >= 1
    /\ IsOver =>
        /\ LivePlayers = {state.winning_player}
        /\ {p \in Players : get_payoffs(state)[p] = 1} = LivePlayers
        /\ \A p \in Players \ LivePlayers : get_payoffs(state)[p] = 0 - 1

C3_Witness == IsOver /\ plays > 0

\* C4: along actions taken from legal_actions(), the player to act has a
\* hidden card while the game is not over and is None at game_over, and
\* 'player to act is dead' is never raised.
C4_PlayerToActAlive ==
    /\ result # "RuntimeError: player to act is dead"
    /\ ~IsOver => player_to_act(state) \in LivePlayers
    /\ IsOver => player_to_act(state) = NoPlayer

\* a seat has died and the game goes on with another player's turn
C4_Witness ==
    /\ AtStartOfTurn /\ plays > 0
    /\ \E p \in Players : p \notin LivePlayers /\ players[p].trace # <<>>
                          /\ Len(players[p].trace) > Len(players[p].revealed)

\* C5: in every reachable state legal_actions() is non-empty if and only if
\* the game is not over.
C5_LegalActionsNonEmpty == legal_actions # <<>> <=> ~IsOver

\* C6: a play call that raises IllegalAction changes nothing: no player's
\* cash, hidden, revealed or trace, not the deck, not the turn with its
\* pending action, poll responses and player to act.  The game object is
\* then equal to the one before the call, so that any later call acts as
\* if the rejected one had not been made.
C6_IllegalActionNoChange ==
    [][IsIllegal(result') => UNCHANGED <<players, deck, state, plays>>]_vars

C6_Witness == IsIllegal(result) /\ phase(state) = CHOOSE_NEW_ROLES

\* the targeted actions whose target is the actor, a dead seat or a seat
\* index outside the game
BadTargetInputs ==
    {a \in Inputs : /\ a.name \in {STEAL, ASSASSINATE, COUP}
                    /\ a.target # NoPlayer
                    /\ \/ a.target \notin LivePlayers
                       \/ a.target = state.player_id}

\* C7: at start_of_turn a targeted action aimed at the actor, at a dead
\* seat or at a seat outside the game raises IllegalAction, and nothing is
\* started or paid.
C7_BadTargetRejected ==
    [][AtStartOfTurn =>
          \A a \in BadTargetInputs :
              Play(a) => (IsIllegal(result') /\ UNCHANGED <<players, deck, state>>)]_vars

\* C8: at start_of_turn with 10 or more cash every legal action is coup:P
\* for a living opponent P, and every other initial action is refused with
\* IllegalAction.
MustCoup == AtStartOfTurn /\ players[state.player_id].cash >= 10

C8_MandatoryCoup ==
    /\ [](MustCoup =>
            \A i \in DOMAIN legal_actions :
                /\ legal_actions[i].name = COUP
                /\ legal_actions[i].target \in LivePlayers \ {state.player_id})
    /\ [][MustCoup =>
             \A a \in {b \in Inputs : b.name # COUP} :
                 Play(a) => (IsIllegal(result') /\ UNCHANGED <<players, deck, state>>)]_vars

C8_Witness == MustCoup /\ result = IllegalMustCoup /\ legal_actions # <<>>

\* C9: no player's cash is ever negative, and deduct_cash takes
\* min(asked, owned), returns what it took and leaves the rest.
C9_CashNonNegative ==
    \A p \in Players :
        /\ players[p].cash >= 0
        /\ \A price \in {2, 3, 7} :
              LET d == deduct_cash(Here, p, price)
              IN  /\ d.cash <= players[p].cash
                  /\ d.cash <= price
                  /\ d.cash = price \/ d.cash = players[p].cash
                  /\ d.g.players[p].cash = players[p].cash - d.cash

\* a steal has taken the last credit of a player who had fewer than two
C9_Witness ==
    /\ AtStartOfTurn /\ plays > 0
    /\ \E p, q \in Players :
          /\ p # q /\ players[p].cash = 0
          /\ players[q].trace # <<>>
          /\ players[q].trace[Len(players[q].trace)] = <<"claim", CAPTAIN>>
          /\ players[q].cash \in {3, 4}

\* the initial actions that have a cost, aimed at a seat of the game
CostedInputs == {ActT(n, t) : n \in {ASSASSINATE, COUP}, t \in Players}

\* C10 as stated: an initial action with a cost (assassinate 3, coup 7) that
\* the actor cannot pay raises IllegalAction 'Cannot afford to ...' and
\* starts nothing, and one the actor can pay is accepted.
C10_AffordableAccepted ==
    [][AtStartOfTurn =>
        \A a \in CostedInputs :
          Play(a) =>
              LET cash == players[state.player_id].cash
              IN  IF cash < ACTION_COSTS(a.name)
                  THEN /\ result' = IllegalAfford(a.name)
                       /\ UNCHANGED <<players, deck, state>>
                  ELSE /\ ~IsIllegal(result')
                       /\ state' # state]_vars

\* C10, amended: an initial action with a cost (assassinate 3, coup 7) is
\* refused with IllegalAction 'Cannot afford to ...' and nothing is started
\* exactly when the actor's cash is below the cost; with enough cash it is
\* accepted, except that an assassinate by an actor with 10 or more cash is
\* refused by the mandatory coup.
C10_CannotAfford ==
    [][AtStartOfTurn =>
        \A a \in CostedInputs :
          Play(a) =>
              LET cash == players[state.player_id].cash
              IN  IF cash < ACTION_COSTS(a.name)
                  THEN /\ result' = IllegalAfford(a.name)
                       /\ UNCHANGED <<players, deck, state>>
                  ELSE IF a.name = COUP \/ cash < 10
                       THEN /\ ~IsIllegal(result')
                            /\ state' # state
                       ELSE /\ result' = IllegalMustCoup
                            /\ UNCHANGED <<players, deck, state>>]_vars

C10_Witness == AtStartOfTurn /\ result = IllegalAfford(COUP)

\* the generator states sampled: two seeds, fresh and after one use
SampleSeeds == {RandomState(0, 0), RandomState(1, 1)}

InTurnOf(st, name) ==
    st.kind = "Turn" /\ st.action # None /\ st.action.name = name

\* the challenge round over the initial action's claim is still open
ChallengeOpen(st) ==
    st.kind = "Turn" /\ st.action # None /\ st.action.challenge # None

\* the step has closed the challenge round over the action's claim
ChallengeClosed == ChallengeOpen(state) /\ ~ChallengeOpen(state')

\* the step has made the acting player lose the challenge over role
ActorLostChallenge(role) ==
    LET before == players[state.player_id].trace
        after == players'[state.player_id].trace
    IN  /\ Len(after) > Len(before)
        /\ after[Len(after)] = <<"lost_challenge", role>>

\* C12: nothing is paid when assassinate is played; in an assassinate turn
\* the only step that changes the actor's cash is the one that ends the
\* challenge round over the Assassin claim in the actor's favour, and that
\* step takes exactly 3, whatever happens in the block round afterwards;
\* the actor who loses the challenge pays nothing.
C12_AssassinateCost ==
    [][/\ (AtStartOfTurn /\ InTurnOf(state', ASSASSINATE)) =>
              players'[state.player_id].cash = players[state.player_id].cash
       /\ InTurnOf(state, ASSASSINATE) =>
              players'[state.player_id].cash =
                  players[state.player_id].cash
                  - (IF ChallengeClosed /\ ~ActorLostChallenge(ASSASSIN)
                     THEN 3 ELSE 0)]_vars

\* the Assassin claim went through, 3 is paid and the target may block
C12_Witness ==
    /\ InTurnOf(state, ASSASSINATE) /\ ~ChallengeOpen(state)
    /\ state.action.block # None /\ plays > 0

\* the Challenge in progress in a turn, over the action or over its block
TheChallenge(st) ==
    IF st.kind # "Turn" \/ st.action = None THEN None
    ELSE IF st.action.challenge # None THEN st.action.challenge
    ELSE IF st.action.block # None THEN st.action.block.challenge
    ELSE None

\* a player has to reveal to settle the challenge in progress
InCascade(st) == TheChallenge(st) # None /\ TheChallenge(st).reveal # None

\* the first seat after seat from, in seat order and before the challenged
\* player's seat comes round again, that answered challenge
NextChallenger(c, from) ==
    LET d(p) == (p - c.challenged_player + NumPlayers) % NumPlayers
        later == {p \in DOMAIN c.responses :
                     c.responses[p] = CHALLENGE /\ d(p) > d(from)}
    IN  IF later = {} THEN NoPlayer
        ELSE CHOOSE p \in later : \A q \in later : d(p) <= d(q)

\* the hidden and revealed cards of the seats in S are as before the step
CardsUnchanged(S) ==
    \A p \in S : /\ players'[p].hidden = players[p].hidden
                  /\ players'[p].revealed = players[p].revealed

CashUnchanged == \A p \in Players : players'[p].cash = players[p].cash

\* C13: when the challenged player reveals the claimed role, the first
\* player after the challenged one, in seat order, who answered challenge
\* must reveal next (phase incorrect_challenge); each player who reveals in
\* that phase answered challenge and loses exactly one card; after each
\* reveal the next player in seat order who answered challenge must reveal,
\* no passer ever does, nothing else changes meanwhile, and the challenge is
\* closed (the claim upheld) only by the reveal of the last of them.
C13_IncorrectChallengeCascade ==
    [][(InCascade(state) /\ <<players, state>>' # <<players, state>>) =>
        LET c == TheChallenge(state)
            p == c.reveal.player_id
            q == NextChallenger(c, p)
            cp == c.challenged_player
        IN  /\ (/\ c.reveal.phase_name = PROVE_CHALLENGE
                /\ players'[cp].trace = Append(players[cp].trace, <<"reveal", c.role>>)) =>
                   /\ result' = NoErr
                   /\ q # NoPlayer
                   /\ InCascade(state')
                   /\ TheChallenge(state').reveal = Reveal(q, INCORRECT_CHALLENGE)
                   /\ TheChallenge(state').responses = c.responses
                   /\ CardsUnchanged(Players \ {cp})
                   /\ Len(players'[cp].hidden) = Len(players[cp].hidden)
                   /\ players'[cp].revealed = players[cp].revealed
                   /\ CashUnchanged
            /\ c.reveal.phase_name = INCORRECT_CHALLENGE =>
                   /\ result' = NoErr
                   /\ p \in DOMAIN c.responses /\ c.responses[p] = CHALLENGE
                   /\ Len(players'[p].hidden) = Len(players[p].hidden) - 1
                   /\ Len(players'[p].revealed) = Len(players[p].revealed) + 1
                   /\ CardsUnchanged(Players \ {p})
                   /\ IF q # NoPlayer
                      THEN /\ InCascade(state')
                           /\ TheChallenge(state').reveal = Reveal(q, INCORRECT_CHALLENGE)
                           /\ TheChallenge(state').responses = c.responses
                           /\ CashUnchanged
                      ELSE ~InCascade(state')]_vars

\* the first of two incorrect challengers has revealed, the second must
C13_Witness ==
    /\ InCascade(state)
    /\ TheChallenge(state).reveal.phase_name = INCORRECT_CHALLENGE
    /\ TheChallenge(state).reveal.player_id
           # NextChallenger(TheChallenge(state), TheChallenge(state).challenged_player)

\* every play of one of the given answers is accepted and changes neither a
\* player's cash, cards or trace nor the deck, and state() afterwards is the
\* same whichever of the answers was given
SecretAnswers(answers) ==
    \A a1 \in answers : \A a2 \in answers :
        \A o1 \in Coup_play_action(Here, a1) :
            \A o2 \in Coup_play_action(Here, a2) :
                /\ o1.err = NoErr
                /\ o1.players = players
                /\ o1.deck = deck
                /\ get_state(o1) = get_state(o2)

\* a challenge round is open and at least two players have yet to answer
ChallengePollNotLast ==
    LET c == TheChallenge(state)
    IN  /\ c # None /\ c.reveal = None
        /\ Cardinality((LivePlayers \ {c.challenged_player}) \ DOMAIN c.responses) > 1

\* the block round of a foreign aid is open and at least two players have
\* yet to answer
BlockPollNotLast ==
    /\ InTurnOf(state, FOREIGN_AID)
    /\ state.action.block # None /\ state.action.block.challenge = None
    /\ Cardinality((LivePlayers \ {state.player_id})
                       \ DOMAIN state.action.block.responses) > 1

\* C14: an answer to a challenge round or to the block round of a foreign
\* aid that is not the last answer of the round changes no player's cash,
\* hidden cards, revealed cards or trace and not the deck, and state()
\* afterwards is the same whether the player passed or challenged (blocked).
C14_SecretResponses ==
    /\ ChallengePollNotLast => SecretAnswers({Act0(PASS), Act0(CHALLENGE)})
    /\ BlockPollNotLast => SecretAnswers({Act0(PASS), block(DUKE)})

\* one player has answered the block round of a foreign aid, another has not
C14_Witness ==
    /\ InTurnOf(state, FOREIGN_AID) /\ state.action.block # None
    /\ state.action.block.challenge = None
    /\ DOMAIN state.action.block.responses # {}
    /\ players = PositionPlayers(Positions[1]) /\ plays = 2

\* C15: when the challenge round over the Captain claim of a steal ends in
\* the actor's favour and the target has no hidden card left, the steal is
\* cancelled: the call succeeds, no block round is opened, nobody's cash
\* changes, and the turn ends (the next living player's turn starts, or the
\* game is over).
C15_StealCancelled ==
    [][(/\ InTurnOf(state, STEAL)
        /\ ChallengeClosed /\ ~ActorLostChallenge(CAPTAIN)
        /\ Len(players'[state.action.target_player].hidden) = 0) =>
           /\ result' = NoErr
           /\ CashUnchanged
           /\ \/ state'.kind = "GameOver"
              \/ state' = Turn(get_next_player(Here', state.player_id))]_vars

\* the target of a steal has died as an incorrect challenger, still owns
\* its cash, and the next player's turn has started
C15_Witness ==
    /\ AtStartOfTurn /\ state.action = None /\ state.player_id = 2
    /\ players[0].trace = <<<<"claim", CAPTAIN>>, <<"reveal", CAPTAIN>>>>
    /\ players[0].cash = 7
    /\ players[1].hidden = <<>> /\ players[1].cash = 7

\* the step has ended the turn in progress
TurnEnded ==
    /\ state.kind = "Turn" /\ state.action # None
    /\ state'.kind = "GameOver" \/ state'.action = None

\* the step has made the blocking player lose the challenge over the block
BlockerLostChallenge ==
    /\ state.action.block # None /\ state.action.block.challenge # None
    /\ LET c == state.action.block.challenge
           before == players[c.challenged_player].trace
           after == players'[c.challenged_player].trace
       IN  /\ Len(after) > Len(before)
           /\ after[Len(after)] = <<"lost_challenge", c.role>>

\* the step has let the steal of the turn go through: the target has
\* passed the block round, or has lost the challenge over its block and
\* still has a hidden card
StealSucceeds ==
    /\ InTurnOf(state, STEAL) /\ state.action.block # None
    /\ TurnEnded
    /\ \/ state.action.block.challenge = None
       \/ /\ BlockerLostChallenge
          /\ Len(players'[state.action.target_player].hidden) > 0

\* C16: a steal that goes through moves min(2, T.cash) from the target T
\* to the actor: T keeps the rest and never goes below 0, the actor gains
\* exactly what T lost, nobody else's cash changes; and no other step of a
\* steal turn changes anybody's cash.
C16_StealClamped ==
    [][InTurnOf(state, STEAL) =>
        LET actor == state.player_id
            target == state.action.target_player
            moved == IF StealSucceeds
                     THEN (IF players[target].cash < 2 THEN players[target].cash ELSE 2)
                     ELSE 0
        IN  \A p \in Players :
                /\ players'[p].cash >= 0
                /\ players'[p].cash = players[p].cash
                                      + (IF p = actor THEN moved ELSE 0)
                                      - (IF p = target THEN moved ELSE 0)]_vars

\* seat 0 has stolen the only credit of seat 2
C16_Witness ==
    /\ AtStartOfTurn /\ state.action = None
    /\ players[0].trace = <<<<"claim", CAPTAIN>>>>
    /\ players[0].cash = 8 /\ players[2].cash = 0
    /\ players[1].cash = 7 /\ plays = 4

\* C17: when the block round of a foreign aid ends with a block, the one
\* player whose block is then challenged is a player who answered block,
\* never one who passed, whatever the number of blockers; and when that
\* player loses the challenge over the block the foreign aid goes through
\* (the actor gains 2, nobody else's cash changes, the turn ends), also when
\* another player had answered block.
C17_OneBlockerChosen ==
    [][InTurnOf(state, FOREIGN_AID) =>
        /\ (/\ state.action.block # None /\ state.action.block.challenge = None
            /\ InTurnOf(state', FOREIGN_AID)
            /\ state'.action.block # None /\ state'.action.block.challenge # None) =>
               LET b == state'.action.block
                   chosen == b.challenge.challenged_player
               IN  /\ chosen \in DOMAIN b.responses
                   /\ b.responses[chosen] = DUKE
                   /\ b.challenge.role = DUKE
                   /\ CashUnchanged
        /\ (state.action.block # None /\ BlockerLostChallenge) =>
               /\ result' = NoErr
               /\ TurnEnded
               /\ \A p \in Players :
                      players'[p].cash = players[p].cash
                                        + (IF p = state.player_id THEN 2 ELSE 0)]_vars

\* two players have blocked a foreign aid, the chosen one has been
\* challenged and has to reveal
C17_Witness ==
    /\ InTurnOf(state, FOREIGN_AID) /\ state.action.block # None
    /\ state.action.block.challenge # None
    /\ state.action.block.challenge.reveal # None
    /\ state.action.block.challenge.reveal.phase_name = PROVE_CHALLENGE
    /\ \A k \in Players \ {state.player_id} :
           /\ k \in DOMAIN state.action.block.responses
           /\ state.action.block.responses[k] = DUKE

\* the lists of n roles in sorted order (n is 1 or 2)
SortedTuples(n) ==
    IF n = 1 THEN {<<r>> : r \in Roles}
    ELSE {t \in RolePairs : RoleRank(t[1]) <= RoleRank(t[2])}

\* the list of roles t can be taken out of the list of roles pool
SubMultiset(t, pool) == \A r \in Roles : Count(t, r) <= Count(pool, r)

\* the list L of action strings is in ascending order without duplicates
StrictlySorted(L) == \A i \in DOMAIN L : \A j \in DOMAIN L : i < j => action_lt(L[i], L[j])

\* C18: in choose_new_roles legal_actions() is the sorted list, without
\* duplicates, of keep:<roles> for every sub-multiset of size |hidden| of
\* the pool (the actor's hidden cards and the two drawn cards), the roles
\* of each in sorted order; hidden {duke, captain} with drawn {assassin,
\* assassin} gives keep:assassin,assassin, keep:assassin,captain,
\* keep:assassin,duke, keep:captain,duke.
C18_KeepActions ==
    phase(state) = CHOOSE_NEW_ROLES =>
        LET hidden == players[state.player_id].hidden
            pool == hidden \o state.action.drawn_roles
            L == legal_actions
        IN  /\ {L[i] : i \in DOMAIN L} =
                   {ActR(KEEP, t) : t \in {u \in SortedTuples(Len(hidden)) :
                                             SubMultiset(u, pool)}}
            /\ StrictlySorted(L)
            /\ (/\ SeqToSet(hidden) = {DUKE, CAPTAIN}
                /\ state.action.drawn_roles = <<ASSASSIN, ASSASSIN>>) =>
                   L = <<ActR(KEEP, <<ASSASSIN, ASSASSIN>>),
                         ActR(KEEP, <<ASSASSIN, CAPTAIN>>),
                         ActR(KEEP, <<ASSASSIN, DUKE>>),
                         ActR(KEEP, <<CAPTAIN, DUKE>>)>>

\* the actor holds duke and captain and has drawn two assassins
C18_Witness ==
    /\ phase(state) = CHOOSE_NEW_ROLES
    /\ SeqToSet(players[state.player_id].hidden) = {DUKE, CAPTAIN}
    /\ state.action.drawn_roles = <<ASSASSIN, ASSASSIN>>

\* the keep actions of two roles written in another order than sorted
UnsortedKeeps == {ActR(KEEP, t) : t \in {u \in RolePairs : RoleRank(u[1]) > RoleRank(u[2])}}

\* the keep actions of one or two roles, in any order
KeepInputs == {a \in Inputs : a.name = KEEP}

\* C19 as stated: in choose_new_roles a keep action whose roles are not
\* written in sorted order fails with IllegalAction and changes nothing.
C19_UnsortedKeepRejected ==
    phase(state) = CHOOSE_NEW_ROLES =>
        \A a \in UnsortedKeeps :
            \A out \in Coup_play_action(Here, a) :
                /\ IsIllegal(out.err)
                /\ <<out.players, out.deck, out.turn>> = <<players, deck, state>>

\* C19, amended: in choose_new_roles a keep action is accepted exactly when
\* its roles, put in sorted order, are an entry of legal_actions(), in
\* whatever order they are written; the actor's hidden cards are then the
\* roles in the order written and the turn ends; any other keep action
\* fails with IllegalAction and changes nothing.
C19_KeepAnyOrder ==
    phase(state) = CHOOSE_NEW_ROLES =>
        \A a \in KeepInputs :
            \A out \in Coup_play_action(Here, a) :
                IF Contains(legal_actions, keep(a.roles))
                THEN /\ out.err = NoErr
                     /\ out.players[state.player_id].hidden = a.roles
                     /\ out.turn.kind = "GameOver" \/ out.turn.action = None
                ELSE /\ IsIllegal(out.err)
                     /\ <<out.players, out.deck, out.turn>> = <<players, deck, state>>

\* seat 0 has kept duke and assassin, written in that order
C19_Witness ==
    /\ AtStartOfTurn /\ state.action = None
    /\ players[0].hidden = <<DUKE, ASSASSIN>>
    /\ players[0].trace # <<>>
    /\ players[0].trace[Len(players[0].trace)] = <<"exchange", "None">>

FirstLivingAfter(ps, p) ==
    LET d(q) == (q - p - 1 + NumPlayers) % NumPlayers
        live == {q \in Players : Len(ps[q].hidden) > 0}
    IN  CHOOSE q \in live : \A r \in live : d(q) <= d(r)

\* C21: an accepted play made during a turn either leaves that turn in
\* progress (same whose_turn, an action pending), or ends the game, or ends
\* the turn: the state is then start_of_turn with no action in progress,
\* and whose_turn = player_to_act = the first living seat in cyclic seat
\* order after the actor of the turn that ended, dead seats being skipped,
\* also when that actor died during the turn.
C21_NextTurn ==
    [][(state.kind = "Turn" /\ result' = NoErr /\ plays' # plays) =>
          \/ state'.kind = "GameOver"
          \/ /\ state'.kind = "Turn" /\ state'.action # None
             /\ state'.player_id = state.player_id
          \/ LET nxt == FirstLivingAfter(players', state.player_id)
             IN  /\ state' = Turn(nxt)
                 /\ nxt # state.player_id
                 /\ Len(players'[nxt].hidden) > 0
                 /\ phase(state') = START_OF_TURN
                 /\ Turn_get_state(state').whose_turn = nxt
                 /\ player_to_act(state') = nxt]_vars

\* seat 0 claimed the Duke with its last card, lost the challenge and died
\* in its own turn; the next turn is seat 1's
C21_Witness ==
    /\ state = Turn(1) /\ plays = 4
    /\ players[0].hidden = <<>>
    /\ players[0].trace # <<>>
    /\ players[0].trace[Len(players[0].trace)] = <<"lost_challenge", DUKE>>

\* C22: game_over is absorbing: a play call made at game_over, whatever
\* the action, fails with a fault that is not IllegalAction and leaves
\* winning_player, every player's cash and cards and the deck as they
\* were, and no step leads from game_over to a turn.
C22_GameOverAbsorbing ==
    /\ [](IsOver =>
            \A a \in Inputs : \A out \in Coup_play_action(Here, a) :
                /\ IsFault(out.err)
                /\ <<out.players, out.deck, out.turn>> = <<players, deck, state>>)
    /\ [][IsOver => (IsOver' /\ UNCHANGED <<players, deck, state>>)]_vars

\* a play call was made at game_over
C22_Witness == IsOver /\ IsFault(result) /\ plays > 0

\* the reveal actions of the hidden cards of seat p
RevealsOf(p) == {reveal(players[p].hidden[i]) : i \in DOMAIN players[p].hidden}

\* C23: when the challenge round over the Assassin claim ends in the
\* actor's favour and the target, who answered challenge and so lost an
\* influence in the cascade, is still alive, the target is offered the
\* block: the phase is awaiting_block, the target is to act and the legal
\* actions are pass and block:contessa.  If the target passes, the phase is
\* direct_attack and the target is to act; there only a reveal of one of
\* its hidden cards is accepted, and it costs the target that card (a
\* second influence in the same turn) and ends the turn.
C23_AssassinTargetLosesTwo ==
    /\ [][(/\ InTurnOf(state, ASSASSINATE)
            /\ ChallengeClosed /\ ~ActorLostChallenge(ASSASSIN) /\ result' = NoErr
            /\ state.action.target_player \in DOMAIN state.action.challenge.responses
            /\ state.action.challenge.responses[state.action.target_player] = CHALLENGE
            /\ Len(players'[state.action.target_player].hidden) > 0) =>
               /\ InTurnOf(state', ASSASSINATE)
               /\ phase(state') = AWAITING_BLOCK
               /\ player_to_act(state') = state.action.target_player
               /\ legal_actions' = <<Act0(PASS), block(CONTESSA)>>]_vars
    /\ []((InTurnOf(state, ASSASSINATE) /\ phase(state) = AWAITING_BLOCK) =>
             \A out \in Coup_play_action(Here, Act0(PASS)) :
                 /\ out.err = NoErr
                 /\ out.players = players
                 /\ phase(out.turn) = DIRECT_ATTACK
                 /\ player_to_act(out.turn) = state.action.target_player)
    /\ []((InTurnOf(state, ASSASSINATE) /\ phase(state) = DIRECT_ATTACK) =>
             LET t == state.action.target_player
             IN  /\ SeqToSet(legal_actions) = RevealsOf(t)
                 /\ \A a \in Inputs : \A out \in Coup_play_action(Here, a) :
                        IF a \in RevealsOf(t)
                        THEN /\ out.err = NoErr
                             /\ Len(out.players[t].hidden) = Len(players[t].hidden) - 1
                             /\ out.players[t].revealed =
                                    Append(players[t].revealed, a.roles[1])
                             /\ out.turn.kind = "GameOver" \/ out.turn.action = None
                        ELSE IsIllegal(out.err))

\* the target challenged a true Assassin claim, lost a card in the cascade,
\* passed the block and has to reveal again
C23_Witness ==
    /\ InTurnOf(state, ASSASSINATE) /\ phase(state) = DIRECT_ATTACK
    /\ players[state.player_id].trace = <<<<"claim", ASSASSIN>>, <<"reveal", ASSASSIN>>>>
    /\ Len(players[state.action.target_player].revealed) = 1
    /\ Len(players[state.action.target_player].trace) = 1
    /\ Len(players[state.action.target_player].hidden) = 1

\* C24: the action ids round-trip.  For every id i below get_num_actions()
\* encode(decode(i)) = i, so that no action string is listed twice; for
\* every action string a of the action space decode(encode(a)) = a; every
\* keep action of the space lists its roles in sorted order; with three
\* players the space has 41 actions.  In every state of a game the legal
\* actions, seen from the player to act, are in the action space, and
\* decoding their ids gives the legal actions back.
C24_ActionIdRoundTrip ==
    /\ get_num_actions = 41
    /\ \A i \in 0..(get_num_actions - 1) : encode_action(decode_action(i)) = i
    /\ \A a \in SeqToSet(id_to_action) :
           /\ encode_action(a) \in 0..(get_num_actions - 1)
           /\ decode_action(encode_action(a)) = a
           /\ a.name = KEEP =>
                  \A i \in 1..(Len(a.roles) - 1) :
                      RoleRank(a.roles[i]) <= RoleRank(a.roles[i + 1])
    /\ LET ids == Env_get_legal_actions(Here)
       IN  /\ Len(ids) = Len(legal_actions)
           /\ \A k \in DOMAIN ids : ids[k] \in 0..(get_num_actions - 1)
           /\ {Env_decode_action(Here, ids[k]) : k \in DOMAIN ids}
                  = SeqToSet(legal_actions)

\* an exchanging player may keep two cards of the same role, and that keep
\* action has an id
C24_Witness ==
    /\ phase(state) = CHOOSE_NEW_ROLES
    /\ \E k \in DOMAIN legal_actions :
           /\ Len(legal_actions[k].roles) = 2
           /\ legal_actions[k].roles[1] = legal_actions[k].roles[2]
           /\ encode_action(legal_actions[k]) >= Len(get_simple_actions) + Len(ALL_ROLES)

\* the number of seats from seat p, not counted, to seat q in seat order
SeatsAfter(p, q) == (q - p - 1 + NumPlayers) % NumPlayers

\* C25: while a challenge round is open (no reveal requested yet) the
\* player to act is a living player other than the challenged one who has
\* not answered yet, the players who have answered are exactly the living
\* players that come before that player in seat order after the challenged
\* player, and the legal actions are [pass, challenge].  Pass and challenge
\* are accepted and only recorded (no card, cash, trace or deck changes, no
\* reveal is requested) as long as a living player other than the
\* challenged one has still to answer, even if a challenge has been
\* answered; the next living seat is asked then.  The last answer requests
\* the reveal of the challenged player if any answer was challenge, else it
\* closes the round.  Any other action is refused with IllegalAction.
C25_ChallengePoll ==
    LET c == TheChallenge(state)
    IN  (c # None /\ c.reveal = None) =>
        LET cp == c.challenged_player
            asked == LivePlayers \ {cp}
            rest == (asked \ DOMAIN c.responses) \ {c.player_id}
        IN  /\ cp \in LivePlayers
            /\ player_to_act(state) = c.player_id
            /\ c.player_id \in asked \ DOMAIN c.responses
            /\ DOMAIN c.responses =
                   {q \in asked : SeatsAfter(cp, q) < SeatsAfter(cp, c.player_id)}
            /\ legal_actions = <<Act0(PASS), Act0(CHALLENGE)>>
            /\ \A a \in Inputs : \A out \in Coup_play_action(Here, a) :
                   IF a \notin {Act0(PASS), Act0(CHALLENGE)}
                   THEN IsIllegal(out.err)
                   ELSE LET c2 == TheChallenge(out.turn)
                            answers == DictValues(c.responses) \cup {a.name}
                        IN  IF rest # {}
                            THEN /\ out.err = NoErr
                                 /\ out.players = players /\ out.deck = deck
                                 /\ c2 # None /\ c2.reveal = None
                                 /\ c2.challenged_player = cp /\ c2.role = c.role
                                 /\ c2.responses = DictPut(c.responses, c.player_id, a.name)
                                 /\ c2.player_id \in rest
                                 /\ \A q \in rest :
                                        SeatsAfter(cp, c2.player_id) <= SeatsAfter(cp, q)
                            ELSE IF CHALLENGE \in answers
                            THEN /\ out.err = NoErr
                                 /\ out.players = players /\ out.deck = deck
                                 /\ c2 # None
                                 /\ c2.reveal = Reveal(cp, PROVE_CHALLENGE)
                                 /\ c2.responses = DictPut(c.responses, c.player_id, a.name)
                            ELSE c2 = None \/ c2.responses = EmptyDict

\* the first player asked has answered challenge and the second is asked
C25_Witness ==
    LET c == TheChallenge(state)
    IN  /\ c # None /\ c.reveal = None
        /\ \E p \in DOMAIN c.responses : c.responses[p] = CHALLENGE
        /\ plays > 0

\* the challenged player has to show a card to settle the challenge
ProveChallenge ==
    /\ InCascade(state)
    /\ TheChallenge(state).reveal.phase_name = PROVE_CHALLENGE

\* C26: when the challenged player reveals a card other than the claimed
\* role, whether or not the claimed role is in the hand too, the call
\* succeeds, that card goes from the player's hidden to the revealed cards,
\* the trace gets the reveal and a lost_challenge entry for the claimed
\* role, no other player's cards change and no challenger is asked to
\* reveal, nobody's cash and not the deck change in the call if the claim
\* was an initial action, whose turn ends without effect or cost, and a
\* claimed block is withdrawn.
C26_RevealDecides ==
    ProveChallenge =>
        LET c == TheChallenge(state)
            cp == c.challenged_player
        IN  /\ c.reveal.player_id = cp
            /\ \A r \in SeqToSet(players[cp].hidden) \ {c.role} :
                 \A out \in Coup_play_action(Here, reveal(r)) :
                   /\ out.err = NoErr
                   /\ out.players[cp].hidden = Remove(players[cp].hidden, r)
                   /\ out.players[cp].revealed = Append(players[cp].revealed, r)
                   /\ out.players[cp].trace =
                          players[cp].trace \o <<<<"reveal", r>>, <<"lost_challenge", c.role>>>>
                   /\ \A p \in Players \ {cp} :
                          /\ out.players[p].hidden = players[p].hidden
                          /\ out.players[p].revealed = players[p].revealed
                          /\ out.players[p].trace = players[p].trace
                   /\ TheChallenge(out.turn) = None
                   /\ phase(out.turn) \notin {CORRECT_CHALLENGE, INCORRECT_CHALLENGE}
                   /\ IF state.action.challenge # None
                      THEN /\ \A p \in Players : out.players[p].cash = players[p].cash
                           /\ out.deck = deck
                           /\ \/ out.turn.kind = "GameOver"
                              \/ out.turn = Turn(FirstLivingAfter(out.players, state.player_id))
                      ELSE \/ out.turn.kind = "GameOver"
                           \/ out.turn.action = None
                           \/ out.turn.action.block = None

\* seat 0 held the Duke it claimed for a tax, showed its Captain instead
\* and lost the challenge; the tax has paid nothing
C26_Witness ==
    /\ state = Turn(1) /\ plays = 4
    /\ players[0].hidden = <<DUKE>> /\ players[0].revealed = <<CAPTAIN>>
    /\ players[0].trace =
           <<<<"claim", DUKE>>, <<"reveal", CAPTAIN>>, <<"lost_challenge", DUKE>>>>
    /\ players[0].cash = 2

\* C27: when the challenged player reveals the claimed role, the call
\* succeeds and the card goes back to the deck before the replacement is
\* dealt: the replacement is any role the deck held or the role shown,
\* also when the deck held no card of that role; the player's other hidden
\* cards stay, the number of hidden cards, the revealed list and the size
\* of the deck are as before, and the deck has gained the card shown and
\* lost the one dealt.
C27_ReplaceRole ==
    (ProveChallenge /\ Contains(players[TheChallenge(state).challenged_player].hidden,
                                TheChallenge(state).role)) =>
        LET c == TheChallenge(state)
            cp == c.challenged_player
            outs == Coup_play_action(Here, reveal(c.role))
            kept == Remove(players[cp].hidden, c.role)
            dealt(out) == out.players[cp].hidden[Len(out.players[cp].hidden)]
        IN  /\ \A out \in outs :
                  /\ out.err = NoErr
                  /\ Len(out.players[cp].hidden) = Len(players[cp].hidden)
                  /\ SubSeq(out.players[cp].hidden, 1, Len(kept)) = kept
                  /\ out.players[cp].revealed = players[cp].revealed
                  /\ DeckSize(out.deck) = DeckSize(deck)
                  /\ \A r \in Roles :
                         out.deck[r] = deck[r] + (IF r = c.role THEN 1 ELSE 0)
                                               - (IF r = dealt(out) THEN 1 ELSE 0)
            /\ {dealt(out) : out \in outs} = {r \in Roles : deck[r] > 0} \cup {c.role}

\* seat 2 proved its Duke while the deck held no Duke, and holds a card
\* again; the challenger has to reveal
C27_Witness ==
    /\ InCascade(state)
    /\ TheChallenge(state).reveal.phase_name = INCORRECT_CHALLENGE
    /\ TheChallenge(state).challenged_player = 2
    /\ TheChallenge(state).role = DUKE
    /\ Len(players[2].hidden) = 1 /\ Len(players[2].revealed) = 1
    /\ players[0].revealed = <<DUKE>> /\ players[1].revealed = <<DUKE>>
    /\ deck[DUKE] + Count(players[2].hidden, DUKE) = 1

\* a block round is open in the turn st: no block has been declared yet
BlockOpen(st) ==
    /\ st.kind = "Turn" /\ st.action # None
    /\ st.action.challenge = None
    /\ st.action.block # None /\ st.action.block.challenge = None

\* the roles that may block the action of the given name
BlockRoles(name) ==
    IF name = FOREIGN_AID THEN <<DUKE>>
    ELSE IF name = STEAL THEN <<AMBASSADOR, CAPTAIN>>
    ELSE <<CONTESSA>>

\* C28: while a block round is open the legal actions are pass and
\* block:R for the roles R that may block the action (duke for foreign
\* aid, ambassador and captain for steal, contessa for assassinate), and
\* any other action is refused with IllegalAction.  For steal and
\* assassinate the target is the player asked, nobody has answered yet and
\* the first answer ends the round.  For foreign aid the player asked is
\* a living player other than the actor who has not answered, those who
\* have answered are the living players before that one in seat order
\* after the actor, an answer that is not the last is only recorded and
\* the next living seat is asked, and the last answer ends the round.
C28_BlockPoll ==
    BlockOpen(state) =>
        LET a == state.action
            b == a.block
            roles == BlockRoles(a.name)
            answers == {Act0(PASS)} \cup {block(roles[i]) : i \in DOMAIN roles}
            asked == IF a.name = FOREIGN_AID THEN LivePlayers \ {a.player_id}
                     ELSE {a.target_player}
            rest == (asked \ DOMAIN b.responses) \ {b.player_id}
        IN  /\ a.name \in {FOREIGN_AID, STEAL, ASSASSINATE}
            /\ legal_actions = <<Act0(PASS)>> \o [i \in DOMAIN roles |-> block(roles[i])]
            /\ player_to_act(state) = b.player_id
            /\ b.player_id \in (asked \cap LivePlayers) \ DOMAIN b.responses
            /\ DOMAIN b.responses =
                   {q \in asked : SeatsAfter(a.player_id, q)
                                     < SeatsAfter(a.player_id, b.player_id)}
            /\ a.name # FOREIGN_AID => (rest = {} /\ b.responses = EmptyDict)
            /\ \A x \in Inputs : \A out \in Coup_play_action(Here, x) :
                   IF x \notin answers THEN IsIllegal(out.err)
                   ELSE IF rest # {}
                   THEN /\ out.err = NoErr
                        /\ out.players = players /\ out.deck = deck
                        /\ BlockOpen(out.turn)
                        /\ out.turn.action.block.responses =
                               DictPut(b.responses, b.player_id,
                                       IF x = Act0(PASS) THEN PASS ELSE x.roles[1])
                        /\ out.turn.action.block.player_id \in rest
                        /\ \A q \in rest :
                               SeatsAfter(a.player_id, out.turn.action.block.player_id)
                                   <= SeatsAfter(a.player_id, q)
                   ELSE ~BlockOpen(out.turn)

\* the target of a steal is asked whether it blocks
C28_Witness ==
    /\ BlockOpen(state) /\ state.action.name = STEAL
    /\ state.action.target_player \in LivePlayers \ {state.player_id}
    /\ player_to_act(state) = state.action.target_player

\* the outcome out of a play call made in the present state has let the
\* action of the turn take effect: foreign aid pays the actor 2 and ends
\* the turn, steal moves min(2, cash of the target) and ends the turn,
\* assassinate makes the target reveal in direct_attack
Proceeds(out) ==
    LET a == state.action
        moved == IF a.name = FOREIGN_AID THEN 2
                 ELSE IF a.name = STEAL THEN Min(2, players[a.target_player].cash)
                 ELSE 0
    IN  /\ \A p \in Players :
               out.players[p].cash = players[p].cash
                   + (IF p = a.player_id THEN moved ELSE 0)
                   - (IF p = a.target_player /\ a.name = STEAL THEN moved ELSE 0)
        /\ IF a.name = ASSASSINATE
           THEN /\ InTurnOf(out.turn, ASSASSINATE)
                /\ out.turn.action.final_action = Reveal(a.target_player, DIRECT_ATTACK)
                /\ phase(out.turn) = DIRECT_ATTACK
           ELSE out.turn.kind = "GameOver" \/ out.turn.action = None

\* the outcome out has ended the turn without effect of its action: no
\* cash has moved and no reveal in direct_attack is asked
NoEffect(out) ==
    /\ \A p \in Players : out.players[p].cash = players[p].cash
    /\ out.turn.kind = "GameOver" \/ out.turn.action = None

\* the outcome out leaves the turn in progress and all cash as it was
TurnGoesOn(out) ==
    /\ \A p \in Players : out.players[p].cash = players[p].cash
    /\ out.turn.kind = "Turn" /\ out.turn.action # None
    /\ out.turn.action.final_action = None

\* What every accepted play call does in a turn whose action has a block
\* round pending or a block declared.  The action proceeds when the last
\* answer of the block round leaves nobody blocking and when the blocker
\* reveals a card other than the role claimed; it has no effect and the
\* turn ends when the last answer of the challenge round over the block
\* leaves it unchallenged and when the last incorrect challenger of the
\* block has revealed; any other call leaves the action without effect so
\* far.  With cancels, an action whose target has lost its last card in
\* the challenge over the block has no effect and the turn ends.
BlockOutcome(cancels) ==
    (state.kind = "Turn" /\ state.action # None /\ state.action.block # None) =>
        LET a == state.action
            b == a.block
            c == b.challenge
            asked == IF a.name = FOREIGN_AID THEN LivePlayers \ {a.player_id}
                     ELSE {a.target_player}
        IN  \A x \in Inputs : \A out \in Coup_play_action(Here, x) :
              out.err = NoErr =>
                IF c = None
                THEN IF (asked \ DOMAIN b.responses) \ {b.player_id} # {}
                     THEN TurnGoesOn(out)
                     ELSE IF x = Act0(PASS) /\ DictValues(b.responses) \subseteq {PASS}
                     THEN Proceeds(out)
                     ELSE TurnGoesOn(out) /\ out.turn.action.block # None
                                          /\ out.turn.action.block.challenge # None
                ELSE IF c.reveal = None
                THEN IF /\ ((LivePlayers \ {c.challenged_player}) \ DOMAIN c.responses)
                               \ {c.player_id} = {}
                        /\ x = Act0(PASS)
                        /\ CHALLENGE \notin DictValues(c.responses)
                     THEN NoEffect(out)
                     ELSE TurnGoesOn(out)
                ELSE IF c.reveal.phase_name = PROVE_CHALLENGE
                THEN IF x = reveal(c.role) THEN TurnGoesOn(out)
                     ELSE IF /\ cancels /\ a.target_player # NoPlayer
                             /\ Len(out.players[a.target_player].hidden) = 0
                     THEN NoEffect(out)
                     ELSE Proceeds(out)
                ELSE IF NextChallenger(c, c.reveal.player_id) = NoPlayer
                THEN NoEffect(out)
                ELSE TurnGoesOn(out)

\* C29 as stated: the blocked action takes effect if and only if the
\* block does not stand: it proceeds when nobody blocks and when the
\* blocker reveals a card other than the claimed blocking role; it has no
\* effect (no cash gained or stolen, no reveal in direct_attack) and the
\* turn ends when the block is unchallenged and when the blocker reveals
\* the claimed role.
C29_BlockedIffStands == BlockOutcome(FALSE)

\* C29, amended: as stated, except that when the blocker reveals a card
\* other than the claimed blocking role and thereby loses its last hidden
\* card, being the target of the steal or of the assassination, the action
\* has no effect either: no cash is stolen, no reveal in direct_attack is
\* asked, and the turn ends.
C29_BlockedUnlessTargetDied == BlockOutcome(TRUE)

\* the target of a steal has blocked with its last card, which is not the
\* role it claims, and has to reveal it to answer a challenge
C29_Witness ==
    /\ InTurnOf(state, STEAL) /\ state.action.block # None
    /\ ProveChallenge
    /\ TheChallenge(state).challenged_player = state.action.target_player
    /\ Len(players[state.action.target_player].hidden) = 1
    /\ ~Contains(players[state.action.target_player].hidden, TheChallenge(state).role)
    /\ players[state.action.target_player].cash > 0
    /\ state.action.target_player # state.player_id

\* C30: in choose_new_roles, with the pool made of the actor's hidden
\* cards and the two drawn cards, a keep action with as many roles as the
\* actor has hidden cards, all of them available in the pool with their
\* multiplicity, is accepted: the actor's hidden cards are the chosen
\* roles, the two cards of the pool not chosen are in the deck, which has
\* the size it had before the draw, the actor's trace has one more entry,
\* exchange, nothing else changes for any player, the turn ends, and for
\* every role the number of copies in the actor's hand and the deck
\* together is what it was before the draw.  A keep action with another
\* number of roles, or with roles not available in the pool (two dukes when
\* the pool holds one), raises IllegalAction and changes nothing, as does
\* any action that is not a keep.
C30_KeepEffect ==
    phase(state) = CHOOSE_NEW_ROLES =>
        LET actor == state.player_id
            hidden == players[actor].hidden
            drawn == state.action.drawn_roles
            pool == hidden \o drawn
        IN  /\ Len(drawn) = 2
            /\ \A x \in Inputs : \A out \in Coup_play_action(Here, x) :
                 IF x.name = KEEP /\ Len(x.roles) = Len(hidden) /\ SubMultiset(x.roles, pool)
                 THEN /\ out.err = NoErr
                      /\ Len(out.players[actor].hidden) = Len(hidden)
                      /\ \A r \in Roles :
                             /\ Count(out.players[actor].hidden, r) = Count(x.roles, r)
                             /\ out.deck[r] = deck[r] + Count(pool, r) - Count(x.roles, r)
                             /\ Count(out.players[actor].hidden, r) + out.deck[r]
                                    = Count(hidden, r) + Count(drawn, r) + deck[r]
                      /\ DeckSize(out.deck) = DeckSize(deck) + 2
                      /\ out.players[actor].trace =
                             Append(players[actor].trace, <<"exchange", "None">>)
                      /\ out.players[actor].revealed = players[actor].revealed
                      /\ out.players[actor].cash = players[actor].cash
                      /\ \A p \in Players \ {actor} : out.players[p] = players[p]
                      /\ out.turn = Turn(FirstLivingAfter(players, actor))
                 ELSE /\ IsIllegal(out.err)
                      /\ <<out.players, out.deck, out.turn>> = <<players, deck, state>>
                      /\ (x.name = KEEP /\ Len(x.roles) # Len(hidden)) =>
                             out.err = IllegalCount
                      /\ (x.name = KEEP /\ Len(x.roles) = Len(hidden)) =>
                             out.err = IllegalPool

\* seat 0 has exchanged its Duke and Captain for the two Assassins of the
\* deck
C30_Witness ==
    /\ state = Turn(1)
    /\ players[0].hidden = <<ASSASSIN, ASSASSIN>>
    /\ players[0].trace = <<<<"claim", AMBASSADOR>>, <<"exchange", "None">>>>
    /\ deck[ASSASSIN] = 0 /\ deck[DUKE] = 2 /\ deck[CAPTAIN] = 3

\* C31: at start_of_turn, coup:T on a seat T of the game by an actor with 7
\* or more cash takes 7 from the actor in the same call, leaves every other
\* player's cash and all cards alone, opens no challenge and no block, and
\* makes T the player to act in phase direct_attack, the legal actions
\* being the reveals of T's hidden cards.  In direct_attack of a coup only
\* such a reveal is accepted: the card goes from T's hidden cards to the
\* end of T's revealed list, no cash changes, and the turn ends (the next
\* living seat is at start_of_turn, or the game is over).
C31_Coup ==
    /\ (AtStartOfTurn /\ players[state.player_id].cash >= 7) =>
          \A t \in Players : \A out \in Coup_play_action(Here, ActT(COUP, t)) :
              LET actor == state.player_id
              IN  /\ ~IsIllegal(out.err)
                  /\ out.players[actor].cash = players[actor].cash - 7
                  /\ out.players = [players EXCEPT ![actor].cash = @ - 7]
                  /\ out.deck = deck
                  /\ InTurnOf(out.turn, COUP)
                  /\ out.turn.player_id = actor
                  /\ out.turn.action.challenge = None
                  /\ out.turn.action.block = None
                  /\ phase(out.turn) = DIRECT_ATTACK
                  /\ player_to_act(out.turn) = t
                  /\ get_legal_actions(out)
                        = [i \in DOMAIN players[t].hidden |-> reveal(players[t].hidden[i])]
    /\ (InTurnOf(state, COUP) /\ ~IsFault(result)) =>
          LET t == state.action.target_player
              actor == state.player_id
          IN  /\ phase(state) = DIRECT_ATTACK
              /\ player_to_act(state) = t
              /\ \A a \in Inputs : \A out \in Coup_play_action(Here, a) :
                    IF a \in RevealsOf(t)
                    THEN /\ out.err = NoErr
                         /\ out.players[t].hidden = Remove(players[t].hidden, a.roles[1])
                         /\ out.players[t].revealed =
                                Append(players[t].revealed, a.roles[1])
                         /\ \A p \in Players :
                                /\ out.players[p].cash = players[p].cash
                                /\ p # t => out.players[p] = players[p]
                         /\ out.deck = deck
                         /\ \/ out.turn.kind = "GameOver"
                            \/ out.turn = Turn(FirstLivingAfter(out.players, actor))
                    ELSE /\ IsIllegal(out.err)
                         /\ <<out.players, out.deck, out.turn>> = <<players, deck, state>>

\* seat 2, who had to coup with 10 credits, has paid 7 and its target with
\* two cards is asked to reveal one
C31_Witness ==
    /\ InTurnOf(state, COUP) /\ result = NoErr
    /\ state.player_id = 2 /\ players[2].cash = 3
    /\ Len(players[state.action.target_player].hidden) = 2
    /\ state.action.target_player # 2

\* the outcome out has closed the turn
ClosesTurn(out) == out.turn.kind = "GameOver" \/ out.turn.action = None

\* the cash of every player in the outcome out is as it was, but for gain
\* more credits with the actor of the turn
CashGain(out, gain) ==
    \A p \in Players :
        out.players[p].cash =
            players[p].cash + (IF p = state.player_id THEN gain ELSE 0)

\* C32: the cash effects of income, foreign aid and tax.  Income, played
\* with fewer than 10 credits, adds 1 to the actor in the same call and
\* ends the turn, no player being polled.  Playing foreign_aid or tax moves
\* no cash and opens the poll.  In a foreign aid turn the accepted call
\* that closes the turn adds 2 to the actor when it is the last pass of a
\* block round without a block, or the blocker's reveal of a card that is
\* not the Duke, and adds nothing when the block stands (unchallenged, or
\* its last incorrect challenger has revealed).  In a tax turn the call
\* that closes the turn adds 3 to the actor unless it is the actor's
\* reveal of a card that is not the Duke, which adds nothing.  Every
\* accepted call that leaves the turn open moves no cash, and no call of
\* these turns changes another player's cash.
C32_UntargetedCash ==
    /\ (AtStartOfTurn /\ players[state.player_id].cash < 10) =>
          /\ \A out \in Coup_play_action(Here, Act0(INCOME)) :
                /\ out.err = NoErr
                /\ CashGain(out, 1)
                /\ out.players = [players EXCEPT ![state.player_id].cash = @ + 1]
                /\ out.deck = deck
                /\ out.turn = Turn(FirstLivingAfter(players, state.player_id))
          /\ \A n \in {FOREIGN_AID, TAX} : \A out \in Coup_play_action(Here, Act0(n)) :
                /\ out.err = NoErr
                /\ CashGain(out, 0)
                /\ InTurnOf(out.turn, n)
                /\ phase(out.turn) =
                      (IF n = TAX THEN AWAITING_CHALLENGE ELSE AWAITING_BLOCK)
    /\ (InTurnOf(state, FOREIGN_AID) \/ InTurnOf(state, TAX)) =>
          \A x \in Inputs : \A out \in Coup_play_action(Here, x) :
              out.err = NoErr =>
                  IF ~ClosesTurn(out) THEN CashGain(out, 0)
                  ELSE IF state.action.name = TAX
                  THEN IF phase(state) = PROVE_CHALLENGE /\ x # reveal(DUKE)
                       THEN CashGain(out, 0) ELSE CashGain(out, 3)
                  ELSE IF \/ phase(state) = AWAITING_BLOCK
                          \/ phase(state) = PROVE_CHALLENGE /\ x # reveal(DUKE)
                       THEN CashGain(out, 2) ELSE CashGain(out, 0)

\* seat 0 has taken 3 credits of tax after proving its Duke to a
\* challenger, who has revealed a card in turn
C32_Witness ==
    /\ state = Turn(1) /\ plays = 5
    /\ players[0].trace = <<<<"claim", DUKE>>, <<"reveal", DUKE>>>>
    /\ players[0].cash = 5
    /\ \E p \in {1, 2} : Len(players[p].revealed) = 1

\* list s is the beginning of list t
IsPrefix(s, t) == Len(s) <= Len(t) /\ SubSeq(t, 1, Len(s)) = s

\* C33: in every reachable state every player has two cards, hidden and
\* revealed together; a play call changes a revealed list only by
\* appending to it; a player without hidden cards has none after any
\* later call, and is not the player to act of any state that is not
\* game_over.
C33_CardsAndDeath ==
    /\ [](\A p \in Players :
            Len(players[p].hidden) + Len(players[p].revealed) = 2)
    /\ [](~IsOver => player_to_act(state) \in LivePlayers)
    /\ [][\A p \in Players :
            /\ IsPrefix(players[p].revealed, players'[p].revealed)
            /\ players[p].hidden = <<>> => players'[p].hidden = <<>>]_vars

\* C34: the phase and the optional fields of get_state() against what is
\* pending in the turn.  The phase is start_of_turn iff the turn has no
\* action; awaiting_challenge iff the action's claim has a challenge round
\* without a reveal; awaiting_block iff the action has a block round
\* without a declared block; awaiting_block_challenge iff the declared
\* block has a challenge round without a reveal; prove_challenge iff the
\* challenged player of the round in progress has to reveal;
\* incorrect_challenge iff a player who answered challenge in that round
\* has to reveal; direct_attack iff the target of a coup or an
\* assassination has to reveal; choose_new_roles iff the actor of an
\* exchange holds drawn cards; game_over iff the game has ended.
\* blocked_with and blocking_player are present iff the action has a block
\* and the phase is awaiting_block_challenge, prove_challenge or
\* incorrect_challenge; drawn_roles iff the phase is choose_new_roles;
\* target_player iff the action is steal, assassinate or coup;
\* winning_player iff the phase is game_over.
C34_PhaseFromPending ==
    LET s == get_state(Here).game
        turn == state.kind = "Turn"
        a == IF turn THEN state.action ELSE None
        c == TheChallenge(state)
        polled_claim == a # None /\ a.challenge # None /\ a.challenge.reveal = None
        polled_block == a # None /\ a.block # None /\ a.block.challenge = None
        polled_block_claim == /\ a # None /\ a.block # None
                              /\ a.block.challenge # None
                              /\ a.block.challenge.reveal = None
        must_prove == /\ c # None /\ c.reveal # None
                      /\ c.reveal.player_id = c.challenged_player
        must_pay == /\ c # None /\ c.reveal # None
                    /\ c.reveal.player_id # c.challenged_player
                    /\ c.reveal.player_id \in DOMAIN c.responses
                    /\ c.responses[c.reveal.player_id] = CHALLENGE
        attacked == /\ a # None /\ a.final_action # None
                    /\ a.name \in {COUP, ASSASSINATE}
                    /\ a.final_action.player_id = a.target_player
        choosing == a # None /\ a.name = EXCHANGE /\ a.drawn_roles # <<>>
    IN  /\ s.phase = START_OF_TURN <=> (turn /\ a = None)
        /\ s.phase = AWAITING_CHALLENGE <=> polled_claim
        /\ s.phase = AWAITING_BLOCK <=> polled_block
        /\ s.phase = AWAITING_BLOCK_CHALLENGE <=> polled_block_claim
        /\ s.phase = PROVE_CHALLENGE <=> must_prove
        /\ s.phase = INCORRECT_CHALLENGE <=> must_pay
        /\ s.phase = DIRECT_ATTACK <=> attacked
        /\ s.phase = CHOOSE_NEW_ROLES <=> choosing
        /\ s.phase = GAME_OVER <=> ~turn
        /\ s.blocked_with # "None" <=> s.blocking_player # NoPlayer
        /\ s.blocked_with # "None" <=>
              /\ a # None /\ a.block # None
              /\ s.phase \in {AWAITING_BLOCK_CHALLENGE, PROVE_CHALLENGE,
                               INCORRECT_CHALLENGE}
        /\ s.blocked_with # "None" =>
              /\ Contains(a.block.roles, s.blocked_with)
              /\ s.blocking_player \in DOMAIN a.block.responses
              /\ a.block.responses[s.blocking_player] = s.blocked_with
        /\ s.drawn_roles # <<>> <=> s.phase = CHOOSE_NEW_ROLES
        /\ s.target_player # NoPlayer <=> s.action \in {STEAL, ASSASSINATE, COUP}
        /\ s.winning_player # NoPlayer <=> s.phase = GAME_OVER

\* a player who challenged a true block has to reveal: the state tells who
\* blocked and with which role
C34_Witness ==
    /\ phase(state) = INCORRECT_CHALLENGE
    /\ get_state(Here).game.blocked_with = DUKE
    /\ get_state(Here).game.blocking_player = 2
    /\ get_state(Here).game.action = FOREIGN_AID

\* C35: every turn ends within 4N + 1 accepted calls.  Counting the
\* accepted play calls from a start_of_turn state, a turn that is still
\* open (its action pending) has taken at most 4N of them, so that the
\* call that closes it, leaving the game at start_of_turn or at game_over,
\* is at most the (4N + 1)-th; while the turn is open and no fault has
\* been raised some action is accepted, so that no turn stays open for
\* want of an acceptable action.
C35_TurnTerminates ==
    /\ TurnOpen => plays <= 4 * NumPlayers
    /\ plays <= 4 * NumPlayers + 1
    /\ (plays > 0 /\ ~TurnOpen /\ ~IsFault(result)) =>
           phase(state) \in {START_OF_TURN, GAME_OVER}
    /\ (TurnOpen /\ ~IsFault(result)) =>
           \E a \in Inputs : \E out \in Coup_play_action(Here, a) : out.err = NoErr

\* a turn of 4N calls has ended: an assassination challenged by both
\* opponents and proven, blocked with a Contessa that both other players
\* challenged and that was shown
C35_Witness ==
    /\ ~TurnOpen /\ plays = 4 * NumPlayers

C37_LegalAccepted ==
    \A i \in DOMAIN legal_actions :
        \A out \in Coup_play_action(Here, legal_actions[i]) :
            /\ ~IsIllegal(out.err)
            /\ out.err = NoErr

\* the target of a steal is asked to block, and blocking with the Captain
\* is one of its legal actions
C37_Witness ==
    /\ InTurnOf(state, STEAL) /\ phase(state) = AWAITING_BLOCK
    /\ legal_actions = <<Act0(PASS), block(AMBASSADOR), block(CAPTAIN)>>
    /\ result = NoErr /\ plays > 0

\* the target of the steal or assassination in progress has blocked, the
\* block is challenged, and the target has to show its only hidden card
TargetProvesWithLastCard ==
    /\ InTurnOf(state, STEAL) \/ InTurnOf(state, ASSASSINATE)
    /\ state.action.block # None /\ state.action.block.challenge # None
    /\ phase(state) = PROVE_CHALLENGE
    /\ state.action.block.challenge.challenged_player = state.action.target_player
    /\ Len(players[state.action.target_player].hidden) = 1

\* C38: when the target of a steal or an assassination, challenged over
\* its own block, reveals its last hidden card and that card is not the
\* role it claimed, the call is accepted, the target has no hidden card
\* left, no cash of any player changes, no reveal in direct_attack is
\* pending, and the turn is over: the game is at game_over or at the
\* start_of_turn of the next living seat after the actor.
C38_DeadTargetSpared ==
    TargetProvesWithLastCard =>
        LET a == state.action
            t == a.target_player
            card == players[t].hidden[1]
        IN  card # a.block.challenge.role =>
                \A out \in Coup_play_action(Here, reveal(card)) :
                    /\ out.err = NoErr
                    /\ out.players[t].hidden = <<>>
                    /\ out.players[t].revealed = Append(players[t].revealed, card)
                    /\ \A p \in Players : out.players[p].cash = players[p].cash
                    /\ phase(out.turn) # DIRECT_ATTACK
                    /\ phase(out.turn) \in {START_OF_TURN, GAME_OVER}
                    /\ out.turn.kind = "Turn" =>
                          out.turn = Turn(FirstLivingAfter(out.players, a.player_id))

\* the steal of seat 0 from seat 1 is over: seat 1 blocked as Captain, was
\* challenged, showed its last card, a Contessa, and keeps its credit
C38_Witness ==
    /\ ~TurnOpen /\ plays = 7 /\ state.kind = "Turn"
    /\ players[0].trace = <<<<"reveal", DUKE>>, <<"claim", CAPTAIN>>>>
    /\ players[1].hidden = <<>>
    /\ players[1].revealed = <<DUKE, CONTESSA>>
    /\ players[1].cash = 1 /\ players[0].cash = 3

\* C39: no player's cash exceeds 12.  In every state each player has at
\* most 12 credits, and the actor of a turn in progress whose action is
\* not a coup has at most 9.  An accepted call never raises the cash of a
\* player other than the actor of the turn; it raises the actor's cash by
\* at most 3, and only when it closes the turn; and the first call of a
\* turn of an actor with 10 credits or more is accepted only if it is a
\* coup, which takes 7 of them.
C39_CashAtMost12 ==
    /\ \A p \in Players : players[p].cash <= 12
    /\ (TurnOpen /\ state.action.name # COUP) => players[state.player_id].cash <= 9
    /\ state.kind = "Turn" =>
          \A a \in Inputs : \A out \in Coup_play_action(Here, a) :
              out.err = NoErr =>
                  /\ \A p \in Players \ {state.player_id} :
                         out.players[p].cash <= players[p].cash
                  /\ out.players[state.player_id].cash
                         <= players[state.player_id].cash + 3
                  /\ ~ClosesTurn(out) =>
                         out.players[state.player_id].cash
                            <= players[state.player_id].cash
                  /\ (AtStartOfTurn /\ players[state.player_id].cash >= 10) =>
                         /\ a.name = COUP
                         /\ out.players[state.player_id].cash
                               = players[state.player_id].cash - 7
                  /\ \A p \in Players : out.players[p].cash <= 12

\* seat 1, who had 9 credits, has taken 3 of tax and has 12
C39_Witness ==
    /\ ~TurnOpen /\ plays > 0
    /\ players[1].cash = 12
    /\ players[1].trace = <<<<"claim", DUKE>>>>

\* the phases in which a player has to reveal a card
RevealPhases == {PROVE_CHALLENGE, CORRECT_CHALLENGE, INCORRECT_CHALLENGE, DIRECT_ATTACK}

\* C40: get_state() never reports the phase correct_challenge, neither in
\* a reachable state nor after any call made in it.  Whenever the legal
\* actions are reveals the phase is prove_challenge, incorrect_challenge
\* or direct_attack.  When the challenged player shows a card other than
\* the claimed role, so that the challenge is correct, no challenger is
\* asked to reveal: the challenge is closed, and the only reveal that may
\* follow is that of the same player in direct_attack, as the target of
\* an assassination whose block has failed.
C40_NoCorrectChallengePhase ==
    /\ get_state(Here).game.phase # CORRECT_CHALLENGE
    /\ (legal_actions # <<>> /\ legal_actions[1].name = REVEAL) =>
          phase(state) \in {PROVE_CHALLENGE, INCORRECT_CHALLENGE, DIRECT_ATTACK}
    /\ phase(state) \in RevealPhases =>
          (legal_actions = <<>> \/ legal_actions[1].name = REVEAL)
    /\ \A a \in Inputs : \A out \in Coup_play_action(Here, a) :
          /\ phase(out.turn) # CORRECT_CHALLENGE
          /\ (/\ phase(state) = PROVE_CHALLENGE /\ out.err = NoErr
              /\ a # reveal(TheChallenge(state).role)) =>
                 /\ TheChallenge(out.turn) = None
                 /\ phase(out.turn) \in {START_OF_TURN, GAME_OVER, DIRECT_ATTACK}
                 /\ phase(out.turn) = DIRECT_ATTACK =>
                       /\ player_to_act(out.turn) = TheChallenge(state).challenged_player
                       /\ out.turn.action.name = ASSASSINATE

\* after a correct challenge of its block the target of an assassination,
\* who has shown a card that is not the Contessa, has to reveal its other
\* card, and no challenger reveals
C40_Witness ==
    /\ InTurnOf(state, ASSASSINATE) /\ phase(state) = DIRECT_ATTACK
    /\ LET t == state.action.target_player
       IN  /\ players[t].trace # <<>>
           /\ players[t].trace[Len(players[t].trace)] = <<"lost_challenge", CONTESSA>>
           /\ Len(players[t].hidden) = 1

====
